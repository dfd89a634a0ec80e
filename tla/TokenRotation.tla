--------------------------- MODULE TokenRotation ---------------------------
(***************************************************************************)
(* Refresh tokens: each login starts a family, each refresh revokes the    *)
(* token it was given and issues the next one of the family, and a revoked *)
(* token that comes back ends the family.                                  *)
(*                                                                         *)
(* Refresh is a sequence of statements outside any transaction, so the     *)
(* others of the same family, a logout, a password change or an            *)
(* administrator who disables the user come in between. A token is used    *)
(* by a browser that keeps the latest one it was sent.                     *)
(***************************************************************************)
CONSTANTS
  Tokens,       \* rows of "RefreshToken", by token
  Families,     \* tokenFamily of a login
  Users,
  UserOf,       \* user of each family
  Requests,     \* handlers running at the same time
  None          \* no token, no family

ASSUME TokenAssumption ==
  /\ UserOf \in [Families -> Users]
  /\ None \notin Tokens \union Families

VARIABLES
  row,          \* the row of each token, as Refresh tells it apart
  familyOf,     \* the family of each token issued so far
  enabled,      \* "User".enabled
  admin,        \* progress of an administrator who disables the user
  at,           \* what each request does next
  token,        \* the token it was given, or the one it has issued
  fam,          \* the family it works for
  held,         \* the token the browser of each family holds
  overlapped,   \* history: families two refreshes of which overlapped
  disturbed,    \* history: families refreshed otherwise than one at a time,
                \* to the end, with the token the browser holds
  overtaken     \* history: refreshes past their checks at the user's disabling

tableVars   == <<row, familyOf>>
userVars    == <<enabled, admin>>
requestVars == <<at, token, fam>>
historyVars == <<overlapped, disturbed, overtaken>>
vars == <<row, familyOf, enabled, admin, at, token, fam, held, overlapped,
          disturbed, overtaken>>

Rows      == {"absent", "live", "expired", "revoked"}
Positions == {"idle", "endFamily", "reuse", "expired", "rotate", "insert", "reply"}

TypeOK ==
  /\ row        \in [Tokens -> Rows]
  /\ familyOf   \in [Tokens -> Families \union {None}]
  /\ enabled    \in [Users -> BOOLEAN]
  /\ admin      \in [Users -> {"idle", "disabling"}]
  /\ at         \in [Requests -> Positions]
  /\ token      \in [Requests -> Tokens \union {None}]
  /\ fam        \in [Requests -> Families \union {None}]
  /\ held       \in [Families -> Tokens \union {None}]
  /\ overlapped \subseteq Families
  /\ disturbed  \subseteq Families
  /\ overtaken  \in [Users -> SUBSET Requests]
  /\ \A r \in Requests : at[r] # "idle" => fam[r] \in Families

Init ==
  /\ row        = [t \in Tokens |-> "absent"]
  /\ familyOf   = [t \in Tokens |-> None]
  /\ enabled    = [u \in Users |-> TRUE]
  /\ admin      = [u \in Users |-> "idle"]
  /\ at         = [r \in Requests |-> "idle"]
  /\ token      = [r \in Requests |-> None]
  /\ fam        = [r \in Requests |-> None]
  /\ held       = [f \in Families |-> None]
  /\ overlapped = {}
  /\ disturbed  = {}
  /\ overtaken  = [u \in Users |-> {}]

-----------------------------------------------------------------------------
InFamily(f) == {t \in Tokens : familyOf[t] = f}

(* Requests of a family that are to issue a token, by a login or because a *)
(* refresh has found a good one; those refreshes alone; requests that the  *)
(* browser has had no answer from.                                         *)
Issuing(f)    == {r \in Requests : fam[r] = f /\ at[r] \in {"rotate", "insert"}}
Rotating(f)   == {r \in Issuing(f) : token[r] # None}
Refreshing(f) == {r \in Requests : fam[r] = f /\ at[r] \in {"rotate", "insert", "reply"}}

(* DELETE FROM "RefreshToken": by token family, or by user.                *)
DeleteRows(gone) == row' = [t \in Tokens |-> IF t \in gone THEN "absent" ELSE row[t]]

(* clearAuthCookies, in an answer to the browser of the family.            *)
ClearCookie(f, own) == held' = [held EXCEPT ![f] = IF own THEN None ELSE @]

Done(r) ==
  /\ at'        = [at    EXCEPT ![r] = "idle"]
  /\ token'     = [token EXCEPT ![r] = None]
  /\ fam'       = [fam   EXCEPT ![r] = None]
  /\ overtaken' = [u \in Users |-> overtaken[u] \ {r}]

(* Time passes expiresAt, which for a CLI token lies far ahead.            *)
Expire(t) ==
  /\ row[t] = "live"
  /\ row' = [row EXCEPT ![t] = "expired"]
  /\ UNCHANGED <<familyOf, userVars, requestVars, held, historyVars>>

-----------------------------------------------------------------------------
(* Faulty variant: the token is issued outside the family.                 *)
LoginWithoutFamily(r, f) ==
  /\ at[r] = "idle"
  /\ InFamily(f) = {} /\ Issuing(f) = {} /\ held[f] = None
  /\ at' = [at EXCEPT ![r] = "insert"]
  /\ UNCHANGED <<tableVars, userVars, token, fam, held, historyVars>>

(* Every way to log in, a switch of tenant included, ends in issueTokens   *)
(* for a new family. Password and OAuth logins have found the user enabled *)
(* some statements before, or minutes when a second factor follows; device *)
(* codes and the switch of tenant do not look.                             *)
Login(r, f) ==
  /\ at[r] = "idle"
  /\ InFamily(f) = {} /\ Issuing(f) = {} /\ held[f] = None
  /\ at'  = [at  EXCEPT ![r] = "insert"]
  /\ fam' = [fam EXCEPT ![r] = f]
  /\ UNCHANGED <<tableVars, userVars, token, held, historyVars>>

(* Faulty variant: the user is not looked at.                              *)
VerdictWithoutUser(t, bound) ==
  CASE ~bound                         -> "endFamily"
    [] bound /\ row[t] = "revoked"    -> "reuse"
    [] bound /\ row[t] = "expired"    -> "expired"
    [] bound /\ row[t] = "live"       -> "rotate"

(* Refresh reads the row with its user: a request from elsewhere than the  *)
(* token is bound to, a revoked token, an expired one and a disabled user  *)
(* are refused, in this order, and a token without a row before them all.  *)
Verdict(t, bound) ==
  CASE ~bound                         -> "endFamily"
    [] bound /\ row[t] = "revoked"    -> "reuse"
    [] bound /\ row[t] = "expired"    -> "expired"
    [] bound /\ row[t] = "live"       -> IF enabled[UserOf[familyOf[t]]]
                                           THEN "rotate" ELSE "endFamily"

(* Faulty variant: a token is remembered after its row was deleted.        *)
PresentRemembered(r, t, bound) ==
  LET f == familyOf[t] IN
  /\ at[r] = "idle"
  /\ row[t] = "absent" /\ f # None
  /\ at'    = [at    EXCEPT ![r] = "rotate"]
  /\ token' = [token EXCEPT ![r] = t]
  /\ fam'   = [fam   EXCEPT ![r] = f]
  /\ UNCHANGED <<tableVars, userVars, held, historyVars>>

Present(r, t, bound) ==
  LET f == familyOf[t] IN
  /\ at[r] = "idle"
  /\ row[t] # "absent"
  /\ at'    = [at    EXCEPT ![r] = Verdict(t, bound)]
  /\ token' = [token EXCEPT ![r] = t]
  /\ fam'   = [fam   EXCEPT ![r] = f]
  /\ overlapped' = overlapped \union
       (IF Verdict(t, bound) = "rotate" /\ Issuing(f) # {} THEN {f} ELSE {})
  /\ disturbed' = disturbed \union
       (IF t # held[f] \/ Refreshing(f) # {} THEN {f} ELSE {})
  /\ UNCHANGED <<tableVars, userVars, held, overtaken>>

(* The refusals delete the family, or the expired row, in a statement of   *)
(* their own, and the answer clears the cookies of the browser that asked, *)
(* which may be the family's own.                                          *)
Refuse(r, own) ==
  /\ at[r] \in {"endFamily", "reuse", "expired"}
  /\ DeleteRows(IF at[r] = "expired" THEN {token[r]} ELSE InFamily(fam[r]))
  /\ ClearCookie(fam[r], own)
  /\ Done(r)
  /\ UNCHANGED <<familyOf, userVars, overlapped, disturbed>>

(* A token without a row.                                                  *)
RefuseUnknown(f) ==
  /\ held[f] # None /\ row[held[f]] = "absent"
  /\ ClearCookie(f, TRUE)
  /\ UNCHANGED <<tableVars, userVars, requestVars, historyVars>>

(* Faulty variant: the old token stays as it is.                           *)
RevokeNothing(r) ==
  /\ at[r] = "rotate"
  /\ at' = [at EXCEPT ![r] = "insert"]
  /\ UNCHANGED <<tableVars, userVars, token, fam, held, historyVars>>

(* UPDATE ... SET "revokedAt", which does not say whether the row was      *)
(* still there, ...                                                        *)
Revoke(r) ==
  /\ at[r] = "rotate"
  /\ at'  = [at  EXCEPT ![r] = "insert"]
  /\ row' = [row EXCEPT ![token[r]] = IF @ = "absent" THEN @ ELSE "revoked"]
  /\ UNCHANGED <<familyOf, userVars, token, fam, held, historyVars>>

(* ... then INSERT of the next token of the family, ...                    *)
Issue(r, t) ==
  /\ at[r] = "insert"
  /\ familyOf[t] = None
  /\ row'      = [row      EXCEPT ![t] = "live"]
  /\ familyOf' = [familyOf EXCEPT ![t] = fam[r]]
  /\ at'       = [at       EXCEPT ![r] = "reply"]
  /\ token'    = [token    EXCEPT ![r] = t]
  /\ UNCHANGED <<userVars, fam, held, historyVars>>

(* Faulty variant: a browser that holds a token is left with it.           *)
AnswerKeepsCookie(r) ==
  /\ at[r] = "reply"
  /\ held' = [held EXCEPT ![fam[r]] = IF @ = None THEN token[r] ELSE @]
  /\ Done(r)
  /\ UNCHANGED <<tableVars, userVars, overlapped, disturbed>>

(* ... and the answer that sets the browser's cookie.                      *)
Answer(r) ==
  /\ at[r] = "reply"
  /\ held' = [held EXCEPT ![fam[r]] = token[r]]
  /\ Done(r)
  /\ UNCHANGED <<tableVars, userVars, overlapped, disturbed>>

(* A statement fails, the browser hangs up and cancels them, or its answer *)
(* is lost: nothing takes back what was done.                              *)
CutShort(r) ==
  /\ at[r] # "idle"
  /\ disturbed' = disturbed \union
       (IF at[r] \in {"insert", "reply"} THEN {fam[r]} ELSE {})
  /\ Done(r)
  /\ UNCHANGED <<tableVars, userVars, held, overlapped>>

-----------------------------------------------------------------------------
(* Logout deletes the family of the token it is given, if it has a row.    *)
Logout(t, own) ==
  /\ row[t] # "absent"
  /\ DeleteRows(InFamily(familyOf[t]))
  /\ ClearCookie(familyOf[t], own)
  /\ UNCHANGED <<familyOf, userVars, requestVars, historyVars>>

(* A password change or reset, by the user or an administrator, and a      *)
(* switch of tenant delete all tokens of the user.                         *)
DeleteTokens(u) ==
  DeleteRows({t \in Tokens : familyOf[t] # None /\ UserOf[familyOf[t]] = u})

ChangePassword(u) ==
  /\ DeleteTokens(u)
  /\ UNCHANGED <<familyOf, userVars, requestVars, held, historyVars>>

(* ToggleUserEnabled disables the user in one statement, ...               *)
Disable(u) ==
  /\ enabled[u]
  /\ admin[u] = "idle"
  /\ enabled' = [enabled EXCEPT ![u] = FALSE]
  /\ admin'   = [admin   EXCEPT ![u] = "disabling"]
  /\ UNCHANGED <<tableVars, requestVars, held, historyVars>>

(* ... and deletes the tokens in the next.                                 *)
DisableDeletes(u) ==
  /\ admin[u] = "disabling"
  /\ admin' = [admin EXCEPT ![u] = "idle"]
  /\ DeleteTokens(u)
  /\ overtaken' = [overtaken EXCEPT ![u] =
       UNION {Rotating(f) : f \in {g \in Families : UserOf[g] = u}}]
  /\ UNCHANGED <<familyOf, enabled, requestVars, held, overlapped, disturbed>>

(* Another administrator may enable the user at any time.                  *)
Enable(u) ==
  /\ ~enabled[u]
  /\ enabled' = [enabled EXCEPT ![u] = TRUE]
  /\ UNCHANGED <<tableVars, admin, requestVars, held, historyVars>>

-----------------------------------------------------------------------------
Handle(r) ==
  \/ \E f \in Families : Login(r, f)
  \/ \E t \in Tokens, bound \in BOOLEAN : Present(r, t, bound)
  \/ \E own \in BOOLEAN : Refuse(r, own)
  \/ Revoke(r)
  \/ \E t \in Tokens : Issue(r, t)
  \/ Answer(r)
  \/ CutShort(r)

Administer(u) ==
  \/ ChangePassword(u)
  \/ Disable(u)
  \/ DisableDeletes(u)
  \/ Enable(u)

Next ==
  \/ \E r \in Requests : Handle(r)
  \/ \E t \in Tokens : Expire(t) \/ \E own \in BOOLEAN : Logout(t, own)
  \/ \E f \in Families : RefuseUnknown(f)
  \/ \E u \in Users : Administer(u)

Spec == Init /\ [][Next]_vars

-----------------------------------------------------------------------------
(* Properties.                                                             *)

Unrevoked(f) == {t \in InFamily(f) : row[t] \in {"live", "expired"}}

(* However refreshes, refusals, logouts and password changes interleave, a *)
(* family has more than one token that could be refreshed only if two      *)
(* refreshes read the same token before either revoked it.                 *)
OneUsableToken ==
  \A f \in Families \ overlapped : \A t1, t2 \in Unrevoked(f) : t1 = t2

(* A family that was ended while none of its refreshes was past its checks *)
(* is over: no logged-out, reused or changed-away login comes back.        *)
Over(f) ==
  /\ InFamily(f) # {}
  /\ \A t \in InFamily(f) : row[t] = "absent"
  /\ Issuing(f) = {}

OverIsForGood == [][\A f \in Families : Over(f) => Over(f)']_vars

(* A browser that refreshes one request at a time, with the token it holds *)
(* and to the end, is never taken for one that reuses a revoked token.     *)
ReuseIsNoFalseAlarm ==
  \A r \in Requests : at[r] = "reuse" => fam[r] \in disturbed

(* Once a user is disabled and the tokens are deleted, the only refreshes  *)
(* that still issue one are those past their checks at the deletion: what  *)
(* a login issues to a disabled user cannot be refreshed, because the      *)
(* statements of ToggleUserEnabled come in the right order.                *)
OnlyOvertakenRefreshesIssue ==
  \A f \in Families :
    LET u == UserOf[f] IN
    ~enabled[u] /\ admin[u] = "idle" => Rotating(f) \subseteq overtaken[u]
=============================================================================
