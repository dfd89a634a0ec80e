-------------------------- MODULE MCTokenRotation --------------------------
(***************************************************************************)
(* One user with two logins and two requests that run at the same time.    *)
(***************************************************************************)
EXTENDS TokenRotation, TLC

CONSTANTS laptop, phone, ann, r1, r2, t1, t2, t3

LoginsOfAnn == [f \in Families |-> ann]

AnyToken == Permutations(Tokens) \union Permutations(Requests)
=============================================================================
