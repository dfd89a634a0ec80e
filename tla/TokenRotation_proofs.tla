------------------------ MODULE TokenRotation_proofs ------------------------
(***************************************************************************)
(* Theorems about TokenRotation, for any number of tokens, families, users *)
(* and concurrent requests.                                                *)
(*                                                                         *)
(* What makes a rotation safe without a transaction is that a request past *)
(* its checks vouches for its family: while it is the only one, the tokens *)
(* that could be refreshed are first at most the one it was given and then *)
(* none (OneInv), and the token the browser holds is revoked only while a  *)
(* request of the family is on its way to answer (AlarmInv).               *)
(***************************************************************************)
EXTENDS TokenRotation, TLAPS

(* Whose tokens those are that rows, requests and browsers name.           *)
Owners ==
  /\ \A r \in Requests : at[r] = "idle" => token[r] = None
  /\ \A t \in Tokens : row[t] # "absent" => familyOf[t] \in Families
  /\ \A r \in Requests :
       at[r] \notin {"idle", "insert"} =>
         token[r] \in Tokens /\ familyOf[token[r]] = fam[r]
  /\ \A f \in Families :
       held[f] # None => held[f] \in Tokens /\ familyOf[held[f]] = f

(* What the only request of a family past its checks knows of its tokens.  *)
OneAt(f) ==
  /\ \A r, q \in Issuing(f) : r = q
  /\ \A r \in Issuing(f) : \A t \in Unrevoked(f) :
       at[r] = "rotate" /\ t = token[r]
  /\ \A t1, t2 \in Unrevoked(f) : t1 = t2

OneInv == \A f \in Families \ overlapped : OneAt(f)

(* A browser that waits for each answer holds a revoked token only until   *)
(* the answer comes.                                                       *)
AlarmAt(f) ==
  /\ \A r, q \in Refreshing(f) : r = q
  /\ held[f] # None /\ row[held[f]] = "revoked" =>
       \E r \in Refreshing(f) : at[r] \in {"insert", "reply"}
  /\ \A r \in Refreshing(f) : at[r] = "reply" => row[token[r]] # "revoked"

AlarmInv == \A f \in Families \ disturbed : AlarmAt(f)

Inv ==
  /\ TypeOK
  /\ Owners
  /\ OneInv
  /\ AlarmInv
  /\ ReuseIsNoFalseAlarm
  /\ OnlyOvertakenRefreshesIssue

-----------------------------------------------------------------------------
(* What the checks of a refresh let through.                               *)
LEMMA Verdicts ==
  ASSUME TypeOK, NEW t \in Tokens, NEW bound \in BOOLEAN, row[t] # "absent"
  PROVE  /\ Verdict(t, bound) \in {"endFamily", "reuse", "expired", "rotate"}
         /\ Verdict(t, bound) = "rotate" =>
              row[t] = "live" /\ enabled[UserOf[familyOf[t]]]
         /\ Verdict(t, bound) = "reuse" => row[t] = "revoked"
<1>1. row[t] \in {"live", "expired", "revoked"}
  BY DEF TypeOK, Rows
<1>2. CASE ~bound
  BY <1>2 DEF Verdict
<1>3. CASE bound /\ row[t] = "live" /\ enabled[UserOf[familyOf[t]]]
  BY <1>3 DEF Verdict
<1>4. CASE bound /\ row[t] = "live" /\ ~enabled[UserOf[familyOf[t]]]
  BY <1>4 DEF Verdict
<1>5. CASE bound /\ row[t] = "expired"
  BY <1>5 DEF Verdict
<1>6. CASE bound /\ row[t] = "revoked"
  BY <1>6 DEF Verdict
<1> QED
  BY <1>1, <1>2, <1>3, <1>4, <1>5, <1>6

(* The initial state has no token and no request.                          *)
LEMMA InvInit ==
  ASSUME Init
  PROVE  Inv
BY DEF Init, Inv, TypeOK, Owners, OneInv, OneAt, AlarmInv, AlarmAt,
       ReuseIsNoFalseAlarm, OnlyOvertakenRefreshesIssue, InFamily, Issuing, Rotating,
       Refreshing, Unrevoked, Rows, Positions

(* Steps keep the types.                                                   *)
LEMMA TypeStep ==
  ASSUME TypeOK, Owners, [Next]_vars
  PROVE  TypeOK'
<1> USE TokenAssumption DEF TypeOK, Rows, Positions, tableVars, userVars,
    requestVars, historyVars
<1>1. ASSUME NEW r \in Requests, NEW f \in Families, Login(r, f)
      PROVE  TypeOK'
  BY <1>1 DEF Login
<1>2. ASSUME NEW r \in Requests, NEW t \in Tokens, NEW bound \in BOOLEAN, Present(r, t, bound)
      PROVE  TypeOK'
  <2>1. Verdict(t, bound) \in Positions /\ familyOf[t] \in Families
    BY <1>2, Verdicts DEF Present, Owners
  <2> QED
    BY <1>2, <2>1 DEF Present
<1>3. ASSUME NEW r \in Requests, NEW own \in BOOLEAN, Refuse(r, own)
      PROVE  TypeOK'
  BY <1>3 DEF Refuse, Done, DeleteRows, ClearCookie
<1>4. ASSUME NEW r \in Requests, Revoke(r)
      PROVE  TypeOK'
  <2>1. row' \in [Tokens -> Rows]
    BY <1>4 DEF Revoke
  <2> QED
    BY <1>4, <2>1 DEF Revoke
<1>5. ASSUME NEW r \in Requests, NEW t \in Tokens, Issue(r, t)
      PROVE  TypeOK'
  BY <1>5 DEF Issue
<1>6. ASSUME NEW r \in Requests, Answer(r)
      PROVE  TypeOK'
  BY <1>6 DEF Answer, Done
<1>7. ASSUME NEW r \in Requests, CutShort(r)
      PROVE  TypeOK'
  BY <1>7 DEF CutShort, Done
<1>8. ASSUME NEW t \in Tokens, Expire(t)
      PROVE  TypeOK'
  BY <1>8 DEF Expire
<1>9. ASSUME NEW t \in Tokens, NEW own \in BOOLEAN, Logout(t, own)
      PROVE  TypeOK'
  BY <1>9 DEF Logout, DeleteRows, ClearCookie
<1>10. ASSUME NEW f \in Families, RefuseUnknown(f)
      PROVE  TypeOK'
  BY <1>10 DEF RefuseUnknown, ClearCookie
<1>11. ASSUME NEW u \in Users, ChangePassword(u)
      PROVE  TypeOK'
  BY <1>11 DEF ChangePassword, DeleteTokens, DeleteRows
<1>12. ASSUME NEW u \in Users, Disable(u)
      PROVE  TypeOK'
  BY <1>12 DEF Disable
<1>13. ASSUME NEW u \in Users, DisableDeletes(u)
      PROVE  TypeOK'
  <2>1. \A f \in Families : Rotating(f) \subseteq Requests
    BY DEF Rotating, Issuing
  <2>2. UNION {Rotating(f) : f \in {g \in Families : UserOf[g] = u}} \subseteq Requests
    BY <2>1
  <2> QED
    BY <1>13, <2>2 DEF DisableDeletes, DeleteTokens, DeleteRows
<1>14. ASSUME NEW u \in Users, Enable(u)
      PROVE  TypeOK'
  BY <1>14 DEF Enable
<1>15. CASE UNCHANGED vars
  BY <1>15 DEF vars
<1> QED
  BY <1>1, <1>2, <1>3, <1>4, <1>5, <1>6, <1>7, <1>8, <1>9, <1>10, <1>11, <1>12,
     <1>13, <1>14, <1>15
     DEF Next, Handle, Administer

(* A token keeps its family, and who names it works for that family.       *)
LEMMA OwnersStep ==
  ASSUME TypeOK, Owners, TypeOK', [Next]_vars
  PROVE  Owners'
<1> USE TokenAssumption DEF TypeOK, Owners, tableVars, userVars, requestVars,
    historyVars
<1>1. ASSUME NEW r \in Requests, NEW f \in Families, Login(r, f)
      PROVE  Owners'
  BY <1>1 DEF Login
<1>2. ASSUME NEW r \in Requests, NEW t \in Tokens, NEW bound \in BOOLEAN, Present(r, t, bound)
      PROVE  Owners'
  <2>1. Verdict(t, bound) \notin {"idle", "insert"} /\ familyOf[t] \in Families
    BY <1>2, Verdicts DEF Present
  <2> QED
    BY <1>2, <2>1 DEF Present
<1>3. ASSUME NEW r \in Requests, NEW own \in BOOLEAN, Refuse(r, own)
      PROVE  Owners'
  BY <1>3 DEF Refuse, Done, DeleteRows, ClearCookie
<1>4. ASSUME NEW r \in Requests, Revoke(r)
      PROVE  Owners'
  BY <1>4 DEF Revoke
<1>5. ASSUME NEW r \in Requests, NEW t \in Tokens, Issue(r, t)
      PROVE  Owners'
  BY <1>5 DEF Issue
<1>6. ASSUME NEW r \in Requests, Answer(r)
      PROVE  Owners'
  BY <1>6 DEF Answer, Done
<1>7. ASSUME NEW r \in Requests, CutShort(r)
      PROVE  Owners'
  BY <1>7 DEF CutShort, Done
<1>8. ASSUME NEW t \in Tokens, Expire(t)
      PROVE  Owners'
  BY <1>8 DEF Expire
<1>9. ASSUME NEW t \in Tokens, NEW own \in BOOLEAN, Logout(t, own)
      PROVE  Owners'
  BY <1>9 DEF Logout, DeleteRows, ClearCookie
<1>10. ASSUME NEW f \in Families, RefuseUnknown(f)
      PROVE  Owners'
  BY <1>10 DEF RefuseUnknown, ClearCookie
<1>11. ASSUME NEW u \in Users, ChangePassword(u)
      PROVE  Owners'
  BY <1>11 DEF ChangePassword, DeleteTokens, DeleteRows
<1>12. ASSUME NEW u \in Users, Disable(u)
      PROVE  Owners'
  BY <1>12 DEF Disable
<1>13. ASSUME NEW u \in Users, DisableDeletes(u)
      PROVE  Owners'
  BY <1>13 DEF DisableDeletes, DeleteTokens, DeleteRows
<1>14. ASSUME NEW u \in Users, Enable(u)
      PROVE  Owners'
  BY <1>14 DEF Enable
<1>15. CASE UNCHANGED vars
  BY <1>15 DEF vars
<1> QED
  BY <1>1, <1>2, <1>3, <1>4, <1>5, <1>6, <1>7, <1>8, <1>9, <1>10, <1>11, <1>12,
     <1>13, <1>14, <1>15
     DEF Next, Handle, Administer

(* Of a family whose refreshes do not overlap.                             *)
LEMMA OneStep ==
  ASSUME TypeOK, Owners, OneInv, [Next]_vars
  PROVE  OneInv'
<1> SUFFICES ASSUME NEW g \in Families, g \notin overlapped'
             PROVE  OneAt(g)'
  BY DEF OneInv
<1> USE TokenAssumption DEF TypeOK, Rows, tableVars, userVars, requestVars,
    historyVars
<1>1. ASSUME NEW r \in Requests, NEW f \in Families, Login(r, f)
      PROVE  OneAt(g)'
  <2>1. OneAt(g) /\ Unrevoked(g)' = Unrevoked(g)
    BY <1>1 DEF Login, OneInv, Unrevoked, InFamily
  <2>2. CASE f = g
    <3>1. Issuing(g)' = {r} /\ Unrevoked(g) = {}
      BY <1>1, <2>2 DEF Login, Issuing, Unrevoked
    <3> QED
      BY <2>1, <3>1 DEF OneAt
  <2>3. CASE f # g
    <3>1. \A q \in Issuing(g)' : q \in Issuing(g) /\ at'[q] = at[q] /\ token'[q] = token[q]
      BY <1>1, <2>3 DEF Login, Issuing
    <3> QED
      BY <2>1, <3>1 DEF OneAt
  <2> QED
    BY <2>2, <2>3
<1>2. ASSUME NEW r \in Requests, NEW t \in Tokens, NEW bound \in BOOLEAN, Present(r, t, bound)
      PROVE  OneAt(g)'
  <2>1. /\ Verdict(t, bound) \in {"endFamily", "reuse", "expired", "rotate"}
        /\ Verdict(t, bound) = "rotate" => row[t] = "live"
        /\ familyOf[t] \in Families
    BY <1>2, Verdicts DEF Present, Owners
  <2>2. OneAt(g) /\ Unrevoked(g)' = Unrevoked(g)
    BY <1>2 DEF Present, OneInv, Unrevoked, InFamily
  <2>3. CASE Verdict(t, bound) = "rotate" /\ familyOf[t] = g
    <3>1. Issuing(g) = {} /\ t \in Unrevoked(g)
      BY <1>2, <2>1, <2>3 DEF Present, Unrevoked, InFamily
    <3>2. Issuing(g)' = {r} /\ token'[r] = t /\ at'[r] = "rotate"
      BY <1>2, <2>3, <3>1 DEF Present, Issuing
    <3> QED
      BY <2>2, <3>1, <3>2 DEF OneAt
  <2>4. CASE ~(Verdict(t, bound) = "rotate" /\ familyOf[t] = g)
    <3>1. \A q \in Issuing(g)' : q \in Issuing(g) /\ at'[q] = at[q] /\ token'[q] = token[q]
      BY <1>2, <2>1, <2>4 DEF Present, Issuing
    <3> QED
      BY <2>2, <3>1 DEF OneAt
  <2> QED
    BY <2>3, <2>4
<1>3. ASSUME NEW r \in Requests, NEW own \in BOOLEAN, Refuse(r, own)
      PROVE  OneAt(g)'
  <2>1. OneAt(g) /\ Unrevoked(g)' \subseteq Unrevoked(g)
    BY <1>3 DEF Refuse, Done, DeleteRows, ClearCookie, OneInv, Unrevoked, InFamily
  <2>2. \A q \in Issuing(g)' : q \in Issuing(g) /\ at'[q] = at[q] /\ token'[q] = token[q]
    BY <1>3 DEF Refuse, Done, DeleteRows, ClearCookie, Issuing
  <2> QED
    BY <2>1, <2>2 DEF OneAt
<1>4. ASSUME NEW r \in Requests, Revoke(r)
      PROVE  OneAt(g)'
  <2>1. OneAt(g) /\ Unrevoked(g)' \subseteq Unrevoked(g) /\ Issuing(g)' = Issuing(g)
    BY <1>4 DEF Revoke, OneInv, Unrevoked, InFamily, Issuing
  <2>2. CASE fam[r] = g
    <3>1. r \in Issuing(g) /\ token[r] \notin Unrevoked(g)'
      BY <1>4, <2>2 DEF Revoke, Issuing, Unrevoked, Owners
    <3>2. Unrevoked(g)' = {}
      BY <2>1, <3>1 DEF OneAt
    <3> QED
      BY <2>1, <3>2 DEF OneAt
  <2>3. CASE fam[r] # g
    <3>1. \A q \in Issuing(g)' : at'[q] = at[q] /\ token'[q] = token[q]
      BY <1>4, <2>3 DEF Revoke, Issuing
    <3> QED
      BY <2>1, <3>1 DEF OneAt
  <2> QED
    BY <2>2, <2>3
<1>5. ASSUME NEW r \in Requests, NEW t \in Tokens, Issue(r, t)
      PROVE  OneAt(g)'
  <2>1. OneAt(g)
    BY <1>5 DEF Issue, OneInv
  <2>2. CASE fam[r] = g
    <3>1. r \in Issuing(g) /\ Issuing(g)' = Issuing(g) \ {r}
      BY <1>5, <2>2 DEF Issue, Issuing
    <3>2. Issuing(g)' = {} /\ Unrevoked(g) = {}
      BY <1>5, <2>1, <3>1 DEF OneAt, Issue
    <3>3. Unrevoked(g)' \subseteq Unrevoked(g) \union {t}
      BY <1>5 DEF Issue, Unrevoked, InFamily
    <3> QED
      BY <3>2, <3>3 DEF OneAt
  <2>3. CASE fam[r] # g
    <3>1. \A q \in Issuing(g)' : q \in Issuing(g) /\ at'[q] = at[q] /\ token'[q] = token[q]
      BY <1>5, <2>3 DEF Issue, Issuing
    <3>2. Unrevoked(g)' \subseteq Unrevoked(g)
      BY <1>5, <2>3 DEF Issue, Unrevoked, InFamily
    <3> QED
      BY <2>1, <3>1, <3>2 DEF OneAt
  <2> QED
    BY <2>2, <2>3
<1>6. ASSUME NEW r \in Requests, Answer(r)
      PROVE  OneAt(g)'
  <2>1. OneAt(g) /\ Unrevoked(g)' \subseteq Unrevoked(g)
    BY <1>6 DEF Answer, Done, OneInv, Unrevoked, InFamily
  <2>2. \A q \in Issuing(g)' : q \in Issuing(g) /\ at'[q] = at[q] /\ token'[q] = token[q]
    BY <1>6 DEF Answer, Done, Issuing
  <2> QED
    BY <2>1, <2>2 DEF OneAt
<1>7. ASSUME NEW r \in Requests, CutShort(r)
      PROVE  OneAt(g)'
  <2>1. OneAt(g) /\ Unrevoked(g)' \subseteq Unrevoked(g)
    BY <1>7 DEF CutShort, Done, OneInv, Unrevoked, InFamily
  <2>2. \A q \in Issuing(g)' : q \in Issuing(g) /\ at'[q] = at[q] /\ token'[q] = token[q]
    BY <1>7 DEF CutShort, Done, Issuing
  <2> QED
    BY <2>1, <2>2 DEF OneAt
<1>8. ASSUME NEW t \in Tokens, Expire(t)
      PROVE  OneAt(g)'
  <2>1. OneAt(g) /\ Unrevoked(g)' \subseteq Unrevoked(g)
    BY <1>8 DEF Expire, OneInv, Unrevoked, InFamily
  <2>2. \A q \in Issuing(g)' : q \in Issuing(g) /\ at'[q] = at[q] /\ token'[q] = token[q]
    BY <1>8 DEF Expire, Issuing
  <2> QED
    BY <2>1, <2>2 DEF OneAt
<1>9. ASSUME NEW t \in Tokens, NEW own \in BOOLEAN, Logout(t, own)
      PROVE  OneAt(g)'
  <2>1. OneAt(g) /\ Unrevoked(g)' \subseteq Unrevoked(g)
    BY <1>9 DEF Logout, DeleteRows, ClearCookie, OneInv, Unrevoked, InFamily
  <2>2. \A q \in Issuing(g)' : q \in Issuing(g) /\ at'[q] = at[q] /\ token'[q] = token[q]
    BY <1>9 DEF Logout, DeleteRows, ClearCookie, Issuing
  <2> QED
    BY <2>1, <2>2 DEF OneAt
<1>10. ASSUME NEW f \in Families, RefuseUnknown(f)
      PROVE  OneAt(g)'
  <2>1. OneAt(g) /\ Unrevoked(g)' \subseteq Unrevoked(g)
    BY <1>10 DEF RefuseUnknown, ClearCookie, OneInv, Unrevoked, InFamily
  <2>2. \A q \in Issuing(g)' : q \in Issuing(g) /\ at'[q] = at[q] /\ token'[q] = token[q]
    BY <1>10 DEF RefuseUnknown, ClearCookie, Issuing
  <2> QED
    BY <2>1, <2>2 DEF OneAt
<1>11. ASSUME NEW u \in Users, ChangePassword(u)
      PROVE  OneAt(g)'
  <2>1. OneAt(g) /\ Unrevoked(g)' \subseteq Unrevoked(g)
    BY <1>11 DEF ChangePassword, DeleteTokens, DeleteRows, OneInv, Unrevoked,
       InFamily
  <2>2. \A q \in Issuing(g)' : q \in Issuing(g) /\ at'[q] = at[q] /\ token'[q] = token[q]
    BY <1>11 DEF ChangePassword, DeleteTokens, DeleteRows, Issuing
  <2> QED
    BY <2>1, <2>2 DEF OneAt
<1>12. ASSUME NEW u \in Users, Disable(u)
      PROVE  OneAt(g)'
  <2>1. OneAt(g) /\ Unrevoked(g)' \subseteq Unrevoked(g)
    BY <1>12 DEF Disable, OneInv, Unrevoked, InFamily
  <2>2. \A q \in Issuing(g)' : q \in Issuing(g) /\ at'[q] = at[q] /\ token'[q] = token[q]
    BY <1>12 DEF Disable, Issuing
  <2> QED
    BY <2>1, <2>2 DEF OneAt
<1>13. ASSUME NEW u \in Users, DisableDeletes(u)
      PROVE  OneAt(g)'
  <2>1. OneAt(g) /\ Unrevoked(g)' \subseteq Unrevoked(g)
    BY <1>13 DEF DisableDeletes, DeleteTokens, DeleteRows, OneInv, Unrevoked,
       InFamily
  <2>2. \A q \in Issuing(g)' : q \in Issuing(g) /\ at'[q] = at[q] /\ token'[q] = token[q]
    BY <1>13 DEF DisableDeletes, DeleteTokens, DeleteRows, Issuing
  <2> QED
    BY <2>1, <2>2 DEF OneAt
<1>14. ASSUME NEW u \in Users, Enable(u)
      PROVE  OneAt(g)'
  <2>1. OneAt(g) /\ Unrevoked(g)' \subseteq Unrevoked(g)
    BY <1>14 DEF Enable, OneInv, Unrevoked, InFamily
  <2>2. \A q \in Issuing(g)' : q \in Issuing(g) /\ at'[q] = at[q] /\ token'[q] = token[q]
    BY <1>14 DEF Enable, Issuing
  <2> QED
    BY <2>1, <2>2 DEF OneAt
<1>15. CASE UNCHANGED vars
  BY <1>15 DEF vars, OneInv, OneAt, Issuing, Unrevoked, InFamily
<1> QED
  BY <1>1, <1>2, <1>3, <1>4, <1>5, <1>6, <1>7, <1>8, <1>9, <1>10, <1>11, <1>12,
     <1>13, <1>14, <1>15
     DEF Next, Handle, Administer

(* Of a family whose browser waits for each answer.                        *)
LEMMA AlarmStep ==
  ASSUME TypeOK, Owners, AlarmInv, [Next]_vars
  PROVE  AlarmInv'
<1> SUFFICES ASSUME NEW g \in Families, g \notin disturbed'
             PROVE  AlarmAt(g)'
  BY DEF AlarmInv
<1> USE TokenAssumption DEF TypeOK, Rows, tableVars, userVars, requestVars,
    historyVars
<1>1. ASSUME NEW r \in Requests, NEW f \in Families, Login(r, f)
      PROVE  AlarmAt(g)'
  <2>1. AlarmAt(g) /\ held' = held /\ row' = row
    BY <1>1 DEF Login, AlarmInv
  <2>2. CASE f = g
    <3>1. held[g] = None
      BY <1>1, <2>2 DEF Login
    <3>2. \A q \in Requests : fam[q] = g => at[q] \notin {"rotate", "insert", "reply"}
      BY <1>1, <2>2 DEF Login, Issuing, InFamily, Owners
    <3>3. Refreshing(g)' = {r} /\ at'[r] = "insert"
      BY <1>1, <2>2, <3>2 DEF Login, Refreshing
    <3> QED
      BY <2>1, <3>1, <3>3 DEF AlarmAt
  <2>3. CASE f # g
    <3>1. Refreshing(g)' = Refreshing(g)
      BY <1>1, <2>3 DEF Login, Refreshing
    <3>2. \A q \in Refreshing(g) : at'[q] = at[q] /\ token'[q] = token[q]
      BY <1>1 DEF Login, Refreshing
    <3> QED
      BY <2>1, <3>1, <3>2 DEF AlarmAt
  <2> QED
    BY <2>2, <2>3
<1>2. ASSUME NEW r \in Requests, NEW t \in Tokens, NEW bound \in BOOLEAN, Present(r, t, bound)
      PROVE  AlarmAt(g)'
  <2>1. /\ Verdict(t, bound) \in {"endFamily", "reuse", "expired", "rotate"}
        /\ familyOf[t] \in Families
    BY <1>2, Verdicts DEF Present, Owners
  <2>2. AlarmAt(g) /\ held' = held /\ row' = row
    BY <1>2 DEF Present, AlarmInv
  <2>3. CASE familyOf[t] = g
    <3>1. t = held[g] /\ Refreshing(g) = {}
      BY <1>2, <2>1, <2>3 DEF Present
    <3>2. row[held[g]] # "revoked"
      BY <2>2, <3>1 DEF AlarmAt
    <3>3. Refreshing(g)' \subseteq {r} /\ at'[r] # "reply"
      BY <1>2, <2>1, <3>1 DEF Present, Refreshing
    <3> QED
      BY <2>2, <3>2, <3>3 DEF AlarmAt
  <2>4. CASE familyOf[t] # g
    <3>1. Refreshing(g)' = Refreshing(g)
      BY <1>2, <2>4 DEF Present, Refreshing
    <3>2. \A q \in Refreshing(g) : at'[q] = at[q] /\ token'[q] = token[q]
      BY <1>2 DEF Present, Refreshing
    <3> QED
      BY <2>2, <3>1, <3>2 DEF AlarmAt
  <2> QED
    BY <2>3, <2>4
<1>3. ASSUME NEW r \in Requests, NEW own \in BOOLEAN, Refuse(r, own)
      PROVE  AlarmAt(g)'
  <2>1. AlarmAt(g) /\ held'[g] \in {held[g], None}
    BY <1>3 DEF Refuse, Done, DeleteRows, ClearCookie, AlarmInv
  <2>2. \A q \in Refreshing(g)' : q \in Refreshing(g)
    BY <1>3 DEF Refuse, Done, DeleteRows, ClearCookie, Refreshing
  <2>3. \A q \in Requests : q \in Refreshing(g) /\ at[q] \in {"insert", "reply"} =>
          q \in Refreshing(g)' /\ at'[q] = at[q]
    BY <1>3 DEF Refuse, Done, DeleteRows, ClearCookie, Refreshing
  <2>4. \A q \in Refreshing(g)' : at'[q] = "reply" => at[q] = "reply" /\ token'[q] = token[q]
    BY <1>3 DEF Refuse, Done, DeleteRows, ClearCookie, Refreshing
  <2>5. \A x \in Tokens : row'[x] = "revoked" => row[x] = "revoked"
    BY <1>3 DEF Refuse, Done, DeleteRows, ClearCookie
  <2>6. \A q \in Refreshing(g)' : at'[q] = "reply" => token[q] \in Tokens
    BY <2>2, <2>4 DEF Owners, Refreshing
  <2>7. Refreshing(g) \subseteq Requests
    BY DEF Refreshing
  <2> QED
    BY <2>1, <2>2, <2>3, <2>4, <2>5, <2>6, <2>7 DEF AlarmAt, Owners
<1>4. ASSUME NEW r \in Requests, Revoke(r)
      PROVE  AlarmAt(g)'
  <2>1. AlarmAt(g) /\ held' = held /\ token' = token /\ Refreshing(g)' = Refreshing(g)
    BY <1>4 DEF Revoke, AlarmInv, Refreshing
  <2>2. \A q \in Refreshing(g) : q # r => at'[q] = at[q]
    BY <1>4 DEF Revoke, Refreshing
  <2>3. at[r] = "rotate" /\ at'[r] = "insert"
    BY <1>4 DEF Revoke
  <2>4. \A x \in Tokens : x # token[r] => row'[x] = row[x]
    BY <1>4 DEF Revoke
  <2>5. familyOf[token[r]] = fam[r]
    BY <2>3 DEF Owners
  <2>6. CASE fam[r] = g
    <3>1. r \in Refreshing(g) /\ \A q \in Refreshing(g) : q = r
      BY <2>1, <2>3, <2>6 DEF AlarmAt, Refreshing
    <3> QED
      BY <2>1, <2>3, <3>1 DEF AlarmAt
  <2>7. CASE fam[r] # g
    <3>1. r \notin Refreshing(g) /\ (held[g] # None => held[g] # token[r] /\ held[g] \in Tokens)
      BY <2>5, <2>7 DEF Refreshing, Owners
    <3>2. \A q \in Refreshing(g) : at[q] = "reply" => token[q] # token[r] /\ token[q] \in Tokens
      BY <2>5, <2>7 DEF Refreshing, Owners
    <3> QED
      BY <2>1, <2>2, <2>4, <3>1, <3>2 DEF AlarmAt
  <2> QED
    BY <2>6, <2>7
<1>5. ASSUME NEW r \in Requests, NEW t \in Tokens, Issue(r, t)
      PROVE  AlarmAt(g)'
  <2>1. AlarmAt(g) /\ held' = held /\ Refreshing(g)' = Refreshing(g)
    BY <1>5 DEF Issue, AlarmInv, Refreshing
  <2>2. \A q \in Refreshing(g) : q # r => at'[q] = at[q] /\ token'[q] = token[q]
    BY <1>5 DEF Issue, Refreshing
  <2>3. at'[r] = "reply" /\ token'[r] = t /\ row'[t] = "live"
    BY <1>5 DEF Issue
  <2>4. \A x \in Tokens : row'[x] = "revoked" => row[x] = "revoked"
    BY <1>5 DEF Issue
  <2>5. \A q \in Refreshing(g) : at[q] = "reply" => token[q] \in Tokens
    BY DEF Refreshing, Owners
  <2>6. held[g] # None => held[g] \in Tokens
    BY DEF Owners
  <2> QED
    BY <2>1, <2>2, <2>3, <2>4, <2>5, <2>6 DEF AlarmAt
<1>6. ASSUME NEW r \in Requests, Answer(r)
      PROVE  AlarmAt(g)'
  <2>1. AlarmAt(g) /\ row' = row
    BY <1>6 DEF Answer, AlarmInv
  <2>2. \A q \in Refreshing(g)' : q \in Refreshing(g) /\ at'[q] = at[q] /\ token'[q] = token[q]
    BY <1>6 DEF Answer, Done, Refreshing
  <2>3. Refreshing(g) \subseteq Requests
    BY DEF Refreshing
  <2>4. CASE fam[r] = g
    <3>1. r \in Refreshing(g) /\ held'[g] = token[r]
      BY <1>6, <2>4 DEF Answer, Refreshing
    <3>2. row'[held'[g]] # "revoked"
      BY <1>6, <2>1, <3>1 DEF Answer, AlarmAt
    <3> QED
      BY <2>1, <2>2, <3>2 DEF AlarmAt
  <2>5. CASE fam[r] # g
    <3>1. held'[g] = held[g] /\ Refreshing(g)' = Refreshing(g)
      BY <1>6, <2>5 DEF Answer, Done, Refreshing
    <3> QED
      BY <2>1, <2>2, <3>1 DEF AlarmAt
  <2> QED
    BY <2>4, <2>5
<1>7. ASSUME NEW r \in Requests, CutShort(r)
      PROVE  AlarmAt(g)'
  <2>1. AlarmAt(g) /\ held' = held /\ row' = row /\ ~(fam[r] = g /\ at[r] \in {"insert", "reply"})
    BY <1>7 DEF CutShort, AlarmInv
  <2>2. \A q \in Refreshing(g)' : q \in Refreshing(g)
    BY <1>7 DEF CutShort, Done, Refreshing
  <2>3. \A q \in Requests : q \in Refreshing(g) /\ at[q] \in {"insert", "reply"} =>
          q \in Refreshing(g)' /\ at'[q] = at[q]
    BY <1>7, <2>1 DEF CutShort, Done, Refreshing
  <2>4. \A q \in Refreshing(g)' : at'[q] = "reply" => at[q] = "reply" /\ token'[q] = token[q]
    BY <1>7 DEF CutShort, Done, Refreshing
  <2>5. Refreshing(g) \subseteq Requests
    BY DEF Refreshing
  <2> QED
    BY <2>1, <2>2, <2>3, <2>4, <2>5 DEF AlarmAt
<1>8. ASSUME NEW t \in Tokens, Expire(t)
      PROVE  AlarmAt(g)'
  <2>1. AlarmAt(g) /\ held'[g] \in {held[g], None}
    BY <1>8 DEF Expire, AlarmInv
  <2>2. \A q \in Refreshing(g)' : q \in Refreshing(g)
    BY <1>8 DEF Expire, Refreshing
  <2>3. \A q \in Requests : q \in Refreshing(g) /\ at[q] \in {"insert", "reply"} =>
          q \in Refreshing(g)' /\ at'[q] = at[q]
    BY <1>8 DEF Expire, Refreshing
  <2>4. \A q \in Refreshing(g)' : at'[q] = "reply" => at[q] = "reply" /\ token'[q] = token[q]
    BY <1>8 DEF Expire, Refreshing
  <2>5. \A x \in Tokens : row'[x] = "revoked" => row[x] = "revoked"
    BY <1>8 DEF Expire
  <2>6. \A q \in Refreshing(g)' : at'[q] = "reply" => token[q] \in Tokens
    BY <2>2, <2>4 DEF Owners, Refreshing
  <2>7. Refreshing(g) \subseteq Requests
    BY DEF Refreshing
  <2> QED
    BY <2>1, <2>2, <2>3, <2>4, <2>5, <2>6, <2>7 DEF AlarmAt, Owners
<1>9. ASSUME NEW t \in Tokens, NEW own \in BOOLEAN, Logout(t, own)
      PROVE  AlarmAt(g)'
  <2>1. AlarmAt(g) /\ held'[g] \in {held[g], None}
    BY <1>9 DEF Logout, DeleteRows, ClearCookie, AlarmInv
  <2>2. \A q \in Refreshing(g)' : q \in Refreshing(g)
    BY <1>9 DEF Logout, DeleteRows, ClearCookie, Refreshing
  <2>3. \A q \in Requests : q \in Refreshing(g) /\ at[q] \in {"insert", "reply"} =>
          q \in Refreshing(g)' /\ at'[q] = at[q]
    BY <1>9 DEF Logout, DeleteRows, ClearCookie, Refreshing
  <2>4. \A q \in Refreshing(g)' : at'[q] = "reply" => at[q] = "reply" /\ token'[q] = token[q]
    BY <1>9 DEF Logout, DeleteRows, ClearCookie, Refreshing
  <2>5. \A x \in Tokens : row'[x] = "revoked" => row[x] = "revoked"
    BY <1>9 DEF Logout, DeleteRows, ClearCookie
  <2>6. \A q \in Refreshing(g)' : at'[q] = "reply" => token[q] \in Tokens
    BY <2>2, <2>4 DEF Owners, Refreshing
  <2>7. Refreshing(g) \subseteq Requests
    BY DEF Refreshing
  <2> QED
    BY <2>1, <2>2, <2>3, <2>4, <2>5, <2>6, <2>7 DEF AlarmAt, Owners
<1>10. ASSUME NEW f \in Families, RefuseUnknown(f)
      PROVE  AlarmAt(g)'
  <2>1. AlarmAt(g) /\ held'[g] \in {held[g], None}
    BY <1>10 DEF RefuseUnknown, ClearCookie, AlarmInv
  <2>2. \A q \in Refreshing(g)' : q \in Refreshing(g)
    BY <1>10 DEF RefuseUnknown, ClearCookie, Refreshing
  <2>3. \A q \in Requests : q \in Refreshing(g) /\ at[q] \in {"insert", "reply"} =>
          q \in Refreshing(g)' /\ at'[q] = at[q]
    BY <1>10 DEF RefuseUnknown, ClearCookie, Refreshing
  <2>4. \A q \in Refreshing(g)' : at'[q] = "reply" => at[q] = "reply" /\ token'[q] = token[q]
    BY <1>10 DEF RefuseUnknown, ClearCookie, Refreshing
  <2>5. \A x \in Tokens : row'[x] = "revoked" => row[x] = "revoked"
    BY <1>10 DEF RefuseUnknown, ClearCookie
  <2>6. \A q \in Refreshing(g)' : at'[q] = "reply" => token[q] \in Tokens
    BY <2>2, <2>4 DEF Owners, Refreshing
  <2>7. Refreshing(g) \subseteq Requests
    BY DEF Refreshing
  <2> QED
    BY <2>1, <2>2, <2>3, <2>4, <2>5, <2>6, <2>7 DEF AlarmAt, Owners
<1>11. ASSUME NEW u \in Users, ChangePassword(u)
      PROVE  AlarmAt(g)'
  <2>1. AlarmAt(g) /\ held'[g] \in {held[g], None}
    BY <1>11 DEF ChangePassword, DeleteTokens, DeleteRows, AlarmInv
  <2>2. \A q \in Refreshing(g)' : q \in Refreshing(g)
    BY <1>11 DEF ChangePassword, DeleteTokens, DeleteRows, Refreshing
  <2>3. \A q \in Requests : q \in Refreshing(g) /\ at[q] \in {"insert", "reply"} =>
          q \in Refreshing(g)' /\ at'[q] = at[q]
    BY <1>11 DEF ChangePassword, DeleteTokens, DeleteRows, Refreshing
  <2>4. \A q \in Refreshing(g)' : at'[q] = "reply" => at[q] = "reply" /\ token'[q] = token[q]
    BY <1>11 DEF ChangePassword, DeleteTokens, DeleteRows, Refreshing
  <2>5. \A x \in Tokens : row'[x] = "revoked" => row[x] = "revoked"
    BY <1>11 DEF ChangePassword, DeleteTokens, DeleteRows
  <2>6. \A q \in Refreshing(g)' : at'[q] = "reply" => token[q] \in Tokens
    BY <2>2, <2>4 DEF Owners, Refreshing
  <2>7. Refreshing(g) \subseteq Requests
    BY DEF Refreshing
  <2> QED
    BY <2>1, <2>2, <2>3, <2>4, <2>5, <2>6, <2>7 DEF AlarmAt, Owners
<1>12. ASSUME NEW u \in Users, Disable(u)
      PROVE  AlarmAt(g)'
  <2>1. AlarmAt(g) /\ held'[g] \in {held[g], None}
    BY <1>12 DEF Disable, AlarmInv
  <2>2. \A q \in Refreshing(g)' : q \in Refreshing(g)
    BY <1>12 DEF Disable, Refreshing
  <2>3. \A q \in Requests : q \in Refreshing(g) /\ at[q] \in {"insert", "reply"} =>
          q \in Refreshing(g)' /\ at'[q] = at[q]
    BY <1>12 DEF Disable, Refreshing
  <2>4. \A q \in Refreshing(g)' : at'[q] = "reply" => at[q] = "reply" /\ token'[q] = token[q]
    BY <1>12 DEF Disable, Refreshing
  <2>5. \A x \in Tokens : row'[x] = "revoked" => row[x] = "revoked"
    BY <1>12 DEF Disable
  <2>6. \A q \in Refreshing(g)' : at'[q] = "reply" => token[q] \in Tokens
    BY <2>2, <2>4 DEF Owners, Refreshing
  <2>7. Refreshing(g) \subseteq Requests
    BY DEF Refreshing
  <2> QED
    BY <2>1, <2>2, <2>3, <2>4, <2>5, <2>6, <2>7 DEF AlarmAt, Owners
<1>13. ASSUME NEW u \in Users, DisableDeletes(u)
      PROVE  AlarmAt(g)'
  <2>1. AlarmAt(g) /\ held'[g] \in {held[g], None}
    BY <1>13 DEF DisableDeletes, DeleteTokens, DeleteRows, AlarmInv
  <2>2. \A q \in Refreshing(g)' : q \in Refreshing(g)
    BY <1>13 DEF DisableDeletes, DeleteTokens, DeleteRows, Refreshing
  <2>3. \A q \in Requests : q \in Refreshing(g) /\ at[q] \in {"insert", "reply"} =>
          q \in Refreshing(g)' /\ at'[q] = at[q]
    BY <1>13 DEF DisableDeletes, DeleteTokens, DeleteRows, Refreshing
  <2>4. \A q \in Refreshing(g)' : at'[q] = "reply" => at[q] = "reply" /\ token'[q] = token[q]
    BY <1>13 DEF DisableDeletes, DeleteTokens, DeleteRows, Refreshing
  <2>5. \A x \in Tokens : row'[x] = "revoked" => row[x] = "revoked"
    BY <1>13 DEF DisableDeletes, DeleteTokens, DeleteRows
  <2>6. \A q \in Refreshing(g)' : at'[q] = "reply" => token[q] \in Tokens
    BY <2>2, <2>4 DEF Owners, Refreshing
  <2>7. Refreshing(g) \subseteq Requests
    BY DEF Refreshing
  <2> QED
    BY <2>1, <2>2, <2>3, <2>4, <2>5, <2>6, <2>7 DEF AlarmAt, Owners
<1>14. ASSUME NEW u \in Users, Enable(u)
      PROVE  AlarmAt(g)'
  <2>1. AlarmAt(g) /\ held'[g] \in {held[g], None}
    BY <1>14 DEF Enable, AlarmInv
  <2>2. \A q \in Refreshing(g)' : q \in Refreshing(g)
    BY <1>14 DEF Enable, Refreshing
  <2>3. \A q \in Requests : q \in Refreshing(g) /\ at[q] \in {"insert", "reply"} =>
          q \in Refreshing(g)' /\ at'[q] = at[q]
    BY <1>14 DEF Enable, Refreshing
  <2>4. \A q \in Refreshing(g)' : at'[q] = "reply" => at[q] = "reply" /\ token'[q] = token[q]
    BY <1>14 DEF Enable, Refreshing
  <2>5. \A x \in Tokens : row'[x] = "revoked" => row[x] = "revoked"
    BY <1>14 DEF Enable
  <2>6. \A q \in Refreshing(g)' : at'[q] = "reply" => token[q] \in Tokens
    BY <2>2, <2>4 DEF Owners, Refreshing
  <2>7. Refreshing(g) \subseteq Requests
    BY DEF Refreshing
  <2> QED
    BY <2>1, <2>2, <2>3, <2>4, <2>5, <2>6, <2>7 DEF AlarmAt, Owners
<1>15. CASE UNCHANGED vars
  BY <1>15 DEF vars, AlarmInv, AlarmAt, Refreshing
<1> QED
  BY <1>1, <1>2, <1>3, <1>4, <1>5, <1>6, <1>7, <1>8, <1>9, <1>10, <1>11, <1>12,
     <1>13, <1>14, <1>15
     DEF Next, Handle, Administer

(* A reuse is found only of a family that was disturbed.                   *)
LEMMA ReuseStep ==
  ASSUME TypeOK, Owners, AlarmInv, ReuseIsNoFalseAlarm, [Next]_vars
  PROVE  ReuseIsNoFalseAlarm'
<1> USE TokenAssumption DEF ReuseIsNoFalseAlarm, TypeOK, tableVars, userVars,
    requestVars, historyVars
<1>1. ASSUME NEW r \in Requests, NEW f \in Families, Login(r, f)
      PROVE  ReuseIsNoFalseAlarm'
  BY <1>1 DEF Login
<1>2. ASSUME NEW r \in Requests, NEW t \in Tokens, NEW bound \in BOOLEAN, Present(r, t, bound)
      PROVE  ReuseIsNoFalseAlarm'
  <2>1. familyOf[t] \in Families /\ (Verdict(t, bound) = "reuse" => row[t] = "revoked")
    BY <1>2, Verdicts DEF Present, Owners
  <2>2. Verdict(t, bound) = "reuse" => familyOf[t] \in disturbed'
    <3> SUFFICES ASSUME Verdict(t, bound) = "reuse", familyOf[t] \notin disturbed'
                 PROVE  FALSE
      OBVIOUS
    <3>1. t = held[familyOf[t]] /\ Refreshing(familyOf[t]) = {}
      BY <1>2 DEF Present
    <3>2. AlarmAt(familyOf[t])
      BY <1>2, <2>1 DEF Present, AlarmInv
    <3> QED
      BY <2>1, <3>1, <3>2 DEF AlarmAt
  <2> QED
    BY <1>2, <2>2 DEF Present
<1>3. ASSUME NEW r \in Requests, NEW own \in BOOLEAN, Refuse(r, own)
      PROVE  ReuseIsNoFalseAlarm'
  BY <1>3 DEF Refuse, Done, DeleteRows, ClearCookie
<1>4. ASSUME NEW r \in Requests, Revoke(r)
      PROVE  ReuseIsNoFalseAlarm'
  BY <1>4 DEF Revoke
<1>5. ASSUME NEW r \in Requests, NEW t \in Tokens, Issue(r, t)
      PROVE  ReuseIsNoFalseAlarm'
  BY <1>5 DEF Issue
<1>6. ASSUME NEW r \in Requests, Answer(r)
      PROVE  ReuseIsNoFalseAlarm'
  BY <1>6 DEF Answer, Done
<1>7. ASSUME NEW r \in Requests, CutShort(r)
      PROVE  ReuseIsNoFalseAlarm'
  BY <1>7 DEF CutShort, Done
<1>8. ASSUME NEW t \in Tokens, Expire(t)
      PROVE  ReuseIsNoFalseAlarm'
  BY <1>8 DEF Expire
<1>9. ASSUME NEW t \in Tokens, NEW own \in BOOLEAN, Logout(t, own)
      PROVE  ReuseIsNoFalseAlarm'
  BY <1>9 DEF Logout, DeleteRows, ClearCookie
<1>10. ASSUME NEW f \in Families, RefuseUnknown(f)
      PROVE  ReuseIsNoFalseAlarm'
  BY <1>10 DEF RefuseUnknown, ClearCookie
<1>11. ASSUME NEW u \in Users, ChangePassword(u)
      PROVE  ReuseIsNoFalseAlarm'
  BY <1>11 DEF ChangePassword, DeleteTokens, DeleteRows
<1>12. ASSUME NEW u \in Users, Disable(u)
      PROVE  ReuseIsNoFalseAlarm'
  BY <1>12 DEF Disable
<1>13. ASSUME NEW u \in Users, DisableDeletes(u)
      PROVE  ReuseIsNoFalseAlarm'
  BY <1>13 DEF DisableDeletes, DeleteTokens, DeleteRows
<1>14. ASSUME NEW u \in Users, Enable(u)
      PROVE  ReuseIsNoFalseAlarm'
  BY <1>14 DEF Enable
<1>15. CASE UNCHANGED vars
  BY <1>15 DEF vars
<1> QED
  BY <1>1, <1>2, <1>3, <1>4, <1>5, <1>6, <1>7, <1>8, <1>9, <1>10, <1>11, <1>12,
     <1>13, <1>14, <1>15
     DEF Next, Handle, Administer

(* A refresh of a disabled user was past its checks before.                *)
LEMMA OvertakenStep ==
  ASSUME TypeOK, Owners, OnlyOvertakenRefreshesIssue, [Next]_vars
  PROVE  OnlyOvertakenRefreshesIssue'
<1> SUFFICES ASSUME NEW g \in Families
             PROVE  (~enabled[UserOf[g]] /\ admin[UserOf[g]] = "idle" =>
                       Rotating(g) \subseteq overtaken[UserOf[g]])'
  BY DEF OnlyOvertakenRefreshesIssue
<1> USE TokenAssumption DEF TypeOK, tableVars, userVars, requestVars, historyVars
<1>1. ASSUME NEW r \in Requests, NEW f \in Families, Login(r, f)
      PROVE  (~enabled[UserOf[g]] /\ admin[UserOf[g]] = "idle" =>
                Rotating(g) \subseteq overtaken[UserOf[g]])'
  <2>1. \A q \in Rotating(g)' : q \in Rotating(g)
    BY <1>1 DEF Login, Owners, Rotating, Issuing
  <2>2. \A q \in Rotating(g)' : q \in overtaken[UserOf[g]] => q \in overtaken'[UserOf[g]]
    BY <1>1 DEF Login, Rotating, Issuing
  <2>3. enabled' = enabled /\ admin' = admin
    BY <1>1 DEF Login
  <2> QED
    BY <2>1, <2>2, <2>3 DEF OnlyOvertakenRefreshesIssue
<1>2. ASSUME NEW r \in Requests, NEW t \in Tokens, NEW bound \in BOOLEAN, Present(r, t, bound)
      PROVE  (~enabled[UserOf[g]] /\ admin[UserOf[g]] = "idle" =>
                Rotating(g) \subseteq overtaken[UserOf[g]])'
  <2>1. /\ Verdict(t, bound) \in {"endFamily", "reuse", "expired", "rotate"}
        /\ Verdict(t, bound) = "rotate" => enabled[UserOf[familyOf[t]]]
    BY <1>2, Verdicts DEF Present
  <2>2. enabled' = enabled /\ admin' = admin /\ overtaken' = overtaken
    BY <1>2 DEF Present
  <2>3. ~enabled[UserOf[g]] => \A q \in Rotating(g)' : q \in Rotating(g)
    BY <1>2, <2>1 DEF Present, Rotating, Issuing
  <2> QED
    BY <2>2, <2>3 DEF OnlyOvertakenRefreshesIssue
<1>3. ASSUME NEW r \in Requests, NEW own \in BOOLEAN, Refuse(r, own)
      PROVE  (~enabled[UserOf[g]] /\ admin[UserOf[g]] = "idle" =>
                Rotating(g) \subseteq overtaken[UserOf[g]])'
  <2>1. \A q \in Rotating(g)' : q \in Rotating(g)
    BY <1>3 DEF Refuse, Done, DeleteRows, ClearCookie, Rotating, Issuing
  <2>2. \A q \in Rotating(g)' : q \in overtaken[UserOf[g]] => q \in overtaken'[UserOf[g]]
    BY <1>3 DEF Refuse, Done, DeleteRows, ClearCookie, Rotating, Issuing
  <2>3. enabled' = enabled /\ admin' = admin
    BY <1>3 DEF Refuse, Done, DeleteRows, ClearCookie
  <2> QED
    BY <2>1, <2>2, <2>3 DEF OnlyOvertakenRefreshesIssue
<1>4. ASSUME NEW r \in Requests, Revoke(r)
      PROVE  (~enabled[UserOf[g]] /\ admin[UserOf[g]] = "idle" =>
                Rotating(g) \subseteq overtaken[UserOf[g]])'
  <2>1. \A q \in Rotating(g)' : q \in Rotating(g)
    BY <1>4 DEF Revoke, Rotating, Issuing
  <2>2. \A q \in Rotating(g)' : q \in overtaken[UserOf[g]] => q \in overtaken'[UserOf[g]]
    BY <1>4 DEF Revoke, Rotating, Issuing
  <2>3. enabled' = enabled /\ admin' = admin
    BY <1>4 DEF Revoke
  <2> QED
    BY <2>1, <2>2, <2>3 DEF OnlyOvertakenRefreshesIssue
<1>5. ASSUME NEW r \in Requests, NEW t \in Tokens, Issue(r, t)
      PROVE  (~enabled[UserOf[g]] /\ admin[UserOf[g]] = "idle" =>
                Rotating(g) \subseteq overtaken[UserOf[g]])'
  <2>1. \A q \in Rotating(g)' : q \in Rotating(g)
    BY <1>5 DEF Issue, Rotating, Issuing
  <2>2. \A q \in Rotating(g)' : q \in overtaken[UserOf[g]] => q \in overtaken'[UserOf[g]]
    BY <1>5 DEF Issue, Rotating, Issuing
  <2>3. enabled' = enabled /\ admin' = admin
    BY <1>5 DEF Issue
  <2> QED
    BY <2>1, <2>2, <2>3 DEF OnlyOvertakenRefreshesIssue
<1>6. ASSUME NEW r \in Requests, Answer(r)
      PROVE  (~enabled[UserOf[g]] /\ admin[UserOf[g]] = "idle" =>
                Rotating(g) \subseteq overtaken[UserOf[g]])'
  <2>1. \A q \in Rotating(g)' : q \in Rotating(g)
    BY <1>6 DEF Answer, Done, Rotating, Issuing
  <2>2. \A q \in Rotating(g)' : q \in overtaken[UserOf[g]] => q \in overtaken'[UserOf[g]]
    BY <1>6 DEF Answer, Done, Rotating, Issuing
  <2>3. enabled' = enabled /\ admin' = admin
    BY <1>6 DEF Answer, Done
  <2> QED
    BY <2>1, <2>2, <2>3 DEF OnlyOvertakenRefreshesIssue
<1>7. ASSUME NEW r \in Requests, CutShort(r)
      PROVE  (~enabled[UserOf[g]] /\ admin[UserOf[g]] = "idle" =>
                Rotating(g) \subseteq overtaken[UserOf[g]])'
  <2>1. \A q \in Rotating(g)' : q \in Rotating(g)
    BY <1>7 DEF CutShort, Done, Rotating, Issuing
  <2>2. \A q \in Rotating(g)' : q \in overtaken[UserOf[g]] => q \in overtaken'[UserOf[g]]
    BY <1>7 DEF CutShort, Done, Rotating, Issuing
  <2>3. enabled' = enabled /\ admin' = admin
    BY <1>7 DEF CutShort, Done
  <2> QED
    BY <2>1, <2>2, <2>3 DEF OnlyOvertakenRefreshesIssue
<1>8. ASSUME NEW t \in Tokens, Expire(t)
      PROVE  (~enabled[UserOf[g]] /\ admin[UserOf[g]] = "idle" =>
                Rotating(g) \subseteq overtaken[UserOf[g]])'
  <2>1. \A q \in Rotating(g)' : q \in Rotating(g)
    BY <1>8 DEF Expire, Rotating, Issuing
  <2>2. \A q \in Rotating(g)' : q \in overtaken[UserOf[g]] => q \in overtaken'[UserOf[g]]
    BY <1>8 DEF Expire, Rotating, Issuing
  <2>3. enabled' = enabled /\ admin' = admin
    BY <1>8 DEF Expire
  <2> QED
    BY <2>1, <2>2, <2>3 DEF OnlyOvertakenRefreshesIssue
<1>9. ASSUME NEW t \in Tokens, NEW own \in BOOLEAN, Logout(t, own)
      PROVE  (~enabled[UserOf[g]] /\ admin[UserOf[g]] = "idle" =>
                Rotating(g) \subseteq overtaken[UserOf[g]])'
  <2>1. \A q \in Rotating(g)' : q \in Rotating(g)
    BY <1>9 DEF Logout, DeleteRows, ClearCookie, Rotating, Issuing
  <2>2. \A q \in Rotating(g)' : q \in overtaken[UserOf[g]] => q \in overtaken'[UserOf[g]]
    BY <1>9 DEF Logout, DeleteRows, ClearCookie, Rotating, Issuing
  <2>3. enabled' = enabled /\ admin' = admin
    BY <1>9 DEF Logout, DeleteRows, ClearCookie
  <2> QED
    BY <2>1, <2>2, <2>3 DEF OnlyOvertakenRefreshesIssue
<1>10. ASSUME NEW f \in Families, RefuseUnknown(f)
      PROVE  (~enabled[UserOf[g]] /\ admin[UserOf[g]] = "idle" =>
                Rotating(g) \subseteq overtaken[UserOf[g]])'
  <2>1. \A q \in Rotating(g)' : q \in Rotating(g)
    BY <1>10 DEF RefuseUnknown, ClearCookie, Rotating, Issuing
  <2>2. \A q \in Rotating(g)' : q \in overtaken[UserOf[g]] => q \in overtaken'[UserOf[g]]
    BY <1>10 DEF RefuseUnknown, ClearCookie, Rotating, Issuing
  <2>3. enabled' = enabled /\ admin' = admin
    BY <1>10 DEF RefuseUnknown, ClearCookie
  <2> QED
    BY <2>1, <2>2, <2>3 DEF OnlyOvertakenRefreshesIssue
<1>11. ASSUME NEW u \in Users, ChangePassword(u)
      PROVE  (~enabled[UserOf[g]] /\ admin[UserOf[g]] = "idle" =>
                Rotating(g) \subseteq overtaken[UserOf[g]])'
  <2>1. \A q \in Rotating(g)' : q \in Rotating(g)
    BY <1>11 DEF ChangePassword, DeleteTokens, DeleteRows, Rotating, Issuing
  <2>2. \A q \in Rotating(g)' : q \in overtaken[UserOf[g]] => q \in overtaken'[UserOf[g]]
    BY <1>11 DEF ChangePassword, DeleteTokens, DeleteRows, Rotating, Issuing
  <2>3. enabled' = enabled /\ admin' = admin
    BY <1>11 DEF ChangePassword, DeleteTokens, DeleteRows
  <2> QED
    BY <2>1, <2>2, <2>3 DEF OnlyOvertakenRefreshesIssue
<1>12. ASSUME NEW u \in Users, Disable(u)
      PROVE  (~enabled[UserOf[g]] /\ admin[UserOf[g]] = "idle" =>
                Rotating(g) \subseteq overtaken[UserOf[g]])'
  <2>1. UserOf[g] = u \/ UNCHANGED <<enabled[UserOf[g]], admin[UserOf[g]]>>
    BY <1>12 DEF Disable
  <2>2. admin'[u] # "idle" /\ overtaken' = overtaken /\ Rotating(g)' = Rotating(g)
    BY <1>12 DEF Disable, Rotating, Issuing
  <2> QED
    BY <2>1, <2>2 DEF OnlyOvertakenRefreshesIssue
<1>13. ASSUME NEW u \in Users, DisableDeletes(u)
      PROVE  (~enabled[UserOf[g]] /\ admin[UserOf[g]] = "idle" =>
                Rotating(g) \subseteq overtaken[UserOf[g]])'
  <2>1. Rotating(g)' = Rotating(g) /\ enabled' = enabled
    BY <1>13 DEF DisableDeletes, Rotating, Issuing
  <2>2. CASE UserOf[g] = u
    <3>1. Rotating(g) \subseteq overtaken'[u]
      BY <1>13, <2>2 DEF DisableDeletes
    <3> QED
      BY <2>1, <2>2, <3>1
  <2>3. CASE UserOf[g] # u
    <3>1. admin'[UserOf[g]] = admin[UserOf[g]] /\ overtaken'[UserOf[g]] = overtaken[UserOf[g]]
      BY <1>13, <2>3 DEF DisableDeletes
    <3> QED
      BY <2>1, <3>1 DEF OnlyOvertakenRefreshesIssue
  <2> QED
    BY <2>2, <2>3
<1>14. ASSUME NEW u \in Users, Enable(u)
      PROVE  (~enabled[UserOf[g]] /\ admin[UserOf[g]] = "idle" =>
                Rotating(g) \subseteq overtaken[UserOf[g]])'
  <2>1. UserOf[g] = u \/ enabled'[UserOf[g]] = enabled[UserOf[g]]
    BY <1>14 DEF Enable
  <2>2. /\ enabled'[u] /\ admin' = admin /\ overtaken' = overtaken
        /\ Rotating(g)' = Rotating(g)
    BY <1>14 DEF Enable, Rotating, Issuing
  <2> QED
    BY <2>1, <2>2 DEF OnlyOvertakenRefreshesIssue
<1>15. CASE UNCHANGED vars
  BY <1>15 DEF vars, OnlyOvertakenRefreshesIssue, Rotating, Issuing
<1> QED
  BY <1>1, <1>2, <1>3, <1>4, <1>5, <1>6, <1>7, <1>8, <1>9, <1>10, <1>11, <1>12,
     <1>13, <1>14, <1>15
     DEF Next, Handle, Administer

(* Nothing brings back a family that is over.                              *)
LEMMA OverStep ==
  ASSUME TypeOK, Owners, NEW g \in Families, Over(g), [Next]_vars
  PROVE  Over(g)'
<1> USE TokenAssumption DEF TypeOK, tableVars, userVars, requestVars, historyVars
<1>1. ASSUME NEW r \in Requests, NEW f \in Families, Login(r, f)
      PROVE  Over(g)'
  <2>1. familyOf' = familyOf /\ row' = row /\ f # g
    BY <1>1 DEF Login, Over
  <2>2. Issuing(g)' \subseteq Issuing(g)
    BY <1>1, <2>1 DEF Login, Issuing
  <2> QED
    BY <2>1, <2>2 DEF Over, InFamily
<1>2. ASSUME NEW r \in Requests, NEW t \in Tokens, NEW bound \in BOOLEAN, Present(r, t, bound)
      PROVE  Over(g)'
  <2>1. familyOf' = familyOf /\ row' = row /\ familyOf[t] # g
    BY <1>2 DEF Present, Over, InFamily
  <2>2. Issuing(g)' \subseteq Issuing(g)
    BY <1>2, <2>1 DEF Present, Issuing
  <2> QED
    BY <2>1, <2>2 DEF Over, InFamily
<1>3. ASSUME NEW r \in Requests, NEW own \in BOOLEAN, Refuse(r, own)
      PROVE  Over(g)'
  <2>1. familyOf' = familyOf /\ \A x \in Tokens : row[x] = "absent" => row'[x] = "absent"
    BY <1>3 DEF Refuse, Done, DeleteRows, ClearCookie
  <2>2. Issuing(g)' \subseteq Issuing(g)
    BY <1>3 DEF Refuse, Done, DeleteRows, ClearCookie, Issuing
  <2> QED
    BY <2>1, <2>2 DEF Over, InFamily
<1>4. ASSUME NEW r \in Requests, Revoke(r)
      PROVE  Over(g)'
  <2>1. familyOf' = familyOf /\ \A x \in Tokens : row[x] = "absent" => row'[x] = "absent"
    BY <1>4 DEF Revoke
  <2>2. Issuing(g)' \subseteq Issuing(g)
    BY <1>4 DEF Revoke, Issuing
  <2> QED
    BY <2>1, <2>2 DEF Over, InFamily
<1>5. ASSUME NEW r \in Requests, NEW t \in Tokens, Issue(r, t)
      PROVE  Over(g)'
  <2>1. fam[r] # g
    BY <1>5 DEF Issue, Issuing, Over
  <2>2. Issuing(g)' \subseteq Issuing(g)
    BY <1>5 DEF Issue, Issuing
  <2>3. InFamily(g)' = InFamily(g)
    BY <1>5, <2>1 DEF Issue, InFamily
  <2>4. \A x \in InFamily(g) : row'[x] = row[x]
    BY <1>5 DEF Issue, InFamily
  <2> QED
    BY <2>2, <2>3, <2>4 DEF Over
<1>6. ASSUME NEW r \in Requests, Answer(r)
      PROVE  Over(g)'
  <2>1. familyOf' = familyOf /\ \A x \in Tokens : row[x] = "absent" => row'[x] = "absent"
    BY <1>6 DEF Answer, Done
  <2>2. Issuing(g)' \subseteq Issuing(g)
    BY <1>6 DEF Answer, Done, Issuing
  <2> QED
    BY <2>1, <2>2 DEF Over, InFamily
<1>7. ASSUME NEW r \in Requests, CutShort(r)
      PROVE  Over(g)'
  <2>1. familyOf' = familyOf /\ \A x \in Tokens : row[x] = "absent" => row'[x] = "absent"
    BY <1>7 DEF CutShort, Done
  <2>2. Issuing(g)' \subseteq Issuing(g)
    BY <1>7 DEF CutShort, Done, Issuing
  <2> QED
    BY <2>1, <2>2 DEF Over, InFamily
<1>8. ASSUME NEW t \in Tokens, Expire(t)
      PROVE  Over(g)'
  <2>1. familyOf' = familyOf /\ \A x \in Tokens : row[x] = "absent" => row'[x] = "absent"
    BY <1>8 DEF Expire
  <2>2. Issuing(g)' \subseteq Issuing(g)
    BY <1>8 DEF Expire, Issuing
  <2> QED
    BY <2>1, <2>2 DEF Over, InFamily
<1>9. ASSUME NEW t \in Tokens, NEW own \in BOOLEAN, Logout(t, own)
      PROVE  Over(g)'
  <2>1. familyOf' = familyOf /\ \A x \in Tokens : row[x] = "absent" => row'[x] = "absent"
    BY <1>9 DEF Logout, DeleteRows, ClearCookie
  <2>2. Issuing(g)' \subseteq Issuing(g)
    BY <1>9 DEF Logout, DeleteRows, ClearCookie, Issuing
  <2> QED
    BY <2>1, <2>2 DEF Over, InFamily
<1>10. ASSUME NEW f \in Families, RefuseUnknown(f)
      PROVE  Over(g)'
  <2>1. familyOf' = familyOf /\ \A x \in Tokens : row[x] = "absent" => row'[x] = "absent"
    BY <1>10 DEF RefuseUnknown, ClearCookie
  <2>2. Issuing(g)' \subseteq Issuing(g)
    BY <1>10 DEF RefuseUnknown, ClearCookie, Issuing
  <2> QED
    BY <2>1, <2>2 DEF Over, InFamily
<1>11. ASSUME NEW u \in Users, ChangePassword(u)
      PROVE  Over(g)'
  <2>1. familyOf' = familyOf /\ \A x \in Tokens : row[x] = "absent" => row'[x] = "absent"
    BY <1>11 DEF ChangePassword, DeleteTokens, DeleteRows
  <2>2. Issuing(g)' \subseteq Issuing(g)
    BY <1>11 DEF ChangePassword, DeleteTokens, DeleteRows, Issuing
  <2> QED
    BY <2>1, <2>2 DEF Over, InFamily
<1>12. ASSUME NEW u \in Users, Disable(u)
      PROVE  Over(g)'
  <2>1. familyOf' = familyOf /\ \A x \in Tokens : row[x] = "absent" => row'[x] = "absent"
    BY <1>12 DEF Disable
  <2>2. Issuing(g)' \subseteq Issuing(g)
    BY <1>12 DEF Disable, Issuing
  <2> QED
    BY <2>1, <2>2 DEF Over, InFamily
<1>13. ASSUME NEW u \in Users, DisableDeletes(u)
      PROVE  Over(g)'
  <2>1. familyOf' = familyOf /\ \A x \in Tokens : row[x] = "absent" => row'[x] = "absent"
    BY <1>13 DEF DisableDeletes, DeleteTokens, DeleteRows
  <2>2. Issuing(g)' \subseteq Issuing(g)
    BY <1>13 DEF DisableDeletes, DeleteTokens, DeleteRows, Issuing
  <2> QED
    BY <2>1, <2>2 DEF Over, InFamily
<1>14. ASSUME NEW u \in Users, Enable(u)
      PROVE  Over(g)'
  <2>1. familyOf' = familyOf /\ \A x \in Tokens : row[x] = "absent" => row'[x] = "absent"
    BY <1>14 DEF Enable
  <2>2. Issuing(g)' \subseteq Issuing(g)
    BY <1>14 DEF Enable, Issuing
  <2> QED
    BY <2>1, <2>2 DEF Over, InFamily
<1>15. CASE UNCHANGED vars
  BY <1>15 DEF vars, Over, InFamily, Issuing
<1> QED
  BY <1>1, <1>2, <1>3, <1>4, <1>5, <1>6, <1>7, <1>8, <1>9, <1>10, <1>11, <1>12,
     <1>13, <1>14, <1>15
     DEF Next, Handle, Administer

-----------------------------------------------------------------------------
(* The invariant holds of every behaviour.                                 *)
LEMMA Invariance == Spec => []Inv
<1>1. Init => Inv
  BY InvInit
<1>2. Inv /\ [Next]_vars => Inv'
  BY TypeStep, OwnersStep, OneStep, AlarmStep, ReuseStep, OvertakenStep DEF Inv
<1> QED
  BY <1>1, <1>2, PTL DEF Spec

(* Types: a request that is being handled works for a family.              *)
THEOREM TypeCorrect == Spec => []TypeOK
<1>1. Inv => TypeOK
  BY DEF Inv
<1> QED
  BY <1>1, Invariance, PTL

(* The statements of Refresh, each on its own, leave a family at most one  *)
(* token that could be refreshed unless two of its refreshes overlapped.   *)
THEOREM OneUsableTokenHolds == Spec => []OneUsableToken
<1>1. Inv => OneUsableToken
  BY DEF Inv, OneInv, OneAt, OneUsableToken
<1> QED
  BY <1>1, Invariance, PTL

(* The reuse check of Refresh never hits a browser that refreshes one      *)
(* request at a time and to the end.                                       *)
THEOREM ReuseIsNoFalseAlarmHolds == Spec => []ReuseIsNoFalseAlarm
<1>1. Inv => ReuseIsNoFalseAlarm
  BY DEF Inv
<1> QED
  BY <1>1, Invariance, PTL

(* After ToggleUserEnabled has disabled a user and deleted the tokens, only*)
(* refreshes that were past their checks then can issue one.               *)
THEOREM OnlyOvertakenRefreshesIssueHolds == Spec => []OnlyOvertakenRefreshesIssue
<1>1. Inv => OnlyOvertakenRefreshesIssue
  BY DEF Inv
<1> QED
  BY <1>1, Invariance, PTL

(* A family ended by a refusal, a logout or a password change while no     *)
(* refresh of it was past its checks stays ended.                          *)
THEOREM OverIsForGoodHolds == Spec => OverIsForGood
<1>1. Inv /\ [Next]_vars => [\A f \in Families : Over(f) => Over(f)']_vars
  BY OverStep DEF Inv
<1> QED
  BY <1>1, Invariance, PTL DEF Spec, OverIsForGood
=============================================================================
