------------------------ MODULE TokenFamiliesProofs ------------------------
(***************************************************************************)
(* Proofs about TokenFamilies.  The safety properties rest on how a family *)
(* and its tokens are stored: a family keeps all its refresh tokens as     *)
(* long as it is kept itself, the code it came from stays consumed, and a  *)
(* family once revoked is revoked until it is deleted.                     *)
(***************************************************************************)
EXTENDS TokenFamilies, TLAPS

(* A pair has rows only once it was minted, in a family that was created; *)
(* its refresh token stays as long as the family.                         *)
PairsKept ==
    \A p \in Pair :
        /\ fam[p] = Fresh => refresh[p] = Fresh /\ access[p] = Fresh
        /\ fam[p] # Fresh => granted[fam[p]] # Fresh
        /\ fam[p] # Fresh /\ Row(families, fam[p]) => Row(refresh, p)

(* A family is created with its grant, from a code that stays consumed. *)
CodesSpent ==
    \A f \in Family :
        /\ families[f] = Fresh <=> granted[f] = Fresh
        /\ granted[f] # Fresh => LET c == granted[f].code IN
                                 codes[c] = Gone \/ (Row(codes, c) /\ codes[c].used)

(* A reported family is deleted or revoked. *)
ToldRevoked ==
    \A f \in told : families[f] = Gone \/ (Row(families, f) /\ families[f].revoked)

TokenInv ==
    /\ TokenTypeOK
    /\ PairsKept
    /\ CodesSpent
    /\ ToldRevoked
    /\ OneHolder
    /\ GrantIsNotExceeded

(* The assumption in the form the proofs use it. *)
LEMMA Constants ==
    /\ CodeTTL \in Nat /\ AccessTTL \in Nat /\ RefreshTTL \in Nat /\ MaxTime \in Nat
    /\ Fresh # Gone
    /\ Fresh \notin CodeRow /\ Gone \notin CodeRow
    /\ Fresh \notin FamilyRow /\ Gone \notin FamilyRow
    /\ Fresh \notin RefreshRow /\ Gone \notin RefreshRow
    /\ Fresh \notin AccessRow /\ Gone \notin AccessRow
    /\ Fresh \notin Family /\ Fresh \notin Grant
BY TokenAssumption

(* The initial tables are empty. *)
LEMMA TokenInitInv == TokenInit => TokenInv
BY Constants DEF TokenInit, TokenInv, TokenTypeOK, Row, FamilyKept,
     PairsKept, CodesSpent, ToldRevoked, OneHolder, GrantIsNotExceeded

(* Cleaning up and storing a new code keeps every family as it is or       *)
(* deletes it with all its tokens.                                         *)
LEMMA IssueCodeKeeps ==
  ASSUME TokenInv, NEW now \in Now, NEW client \in Client,
         NEW c \in Code, NEW scopes \in Scopes, IssueCode(c, client, scopes, now)
  PROVE  TokenInv'
<1> USE Constants
<1>1. /\ now \in Nat
      /\ families' = [f \in Family |-> IF f \in ExpiredFamilies(now)
                                       THEN Gone ELSE families[f]]
      /\ refresh' = [p \in Pair |-> IF fam[p] \in ExpiredFamilies(now)
                                    THEN Gone ELSE refresh[p]]
      /\ access' = [p \in Pair |-> IF \/ fam[p] \in ExpiredFamilies(now)
                                      \/ Row(access, p) /\ access[p].exp < now
                                   THEN Gone ELSE access[p]]
  BY DEF IssueCode, DeleteExpired, Now
<1>2. TokenTypeOK'
  BY <1>1 DEF IssueCode, TokenInv, TokenTypeOK, CodesAfterCleanup, ExpiredFamilies,
       Row, FamilyKept, CodeRow
<1>3. PairsKept'
  BY <1>1 DEF IssueCode, TokenInv, TokenTypeOK, PairsKept, ExpiredFamilies, Row
<1>4. CodesSpent'
  BY <1>1 DEF IssueCode, TokenInv, TokenTypeOK, CodesSpent, CodesAfterCleanup,
       ExpiredFamilies, Row, Grant
<1>5. ToldRevoked'
  BY <1>1 DEF IssueCode, TokenInv, TokenTypeOK, ToldRevoked, ExpiredFamilies, Row
<1>6. OneHolder'
  BY <1>1 DEF IssueCode, TokenInv, TokenTypeOK, OneHolder, Row
<1>7. GrantIsNotExceeded'
  BY <1>1 DEF IssueCode, TokenInv, TokenTypeOK, GrantIsNotExceeded, Row
<1> QED BY <1>2, <1>3, <1>4, <1>5, <1>6, <1>7 DEF TokenInv

(* A code that can be exchanged started no family before. *)
LEMMA ExchangeKeeps ==
  ASSUME TokenInv, NEW now \in Now, NEW client \in Client,
         NEW c \in Code, NEW f \in Family, NEW p \in Pair,
         Exchange(c, f, p, client, now)
  PROVE  TokenInv'
<1> USE Constants
<1> DEFINE s == codes[c].scopes
<1>1. /\ now \in Nat /\ Row(codes, c) /\ codes[c].client = client
      /\ codes[c] \in CodeRow /\ ~codes[c].used /\ families[f] = Fresh
      /\ fam[p] = Fresh
  BY DEF Exchange, Now, CodeOK, FindsCode, MintPair, TokenInv, TokenTypeOK, Row
<1>2. /\ s \in Scopes
      /\ families' = [families EXCEPT ![f] =
                        [client |-> client, gen |-> secret, exp |-> now + RefreshTTL,
                         revoked |-> FALSE]]
      /\ refresh' = [refresh EXCEPT ![p] = NewRefresh(s, now)]
      /\ access' = [access EXCEPT ![p] =
                      [scopes |-> s, exp |-> now + AccessTTL, revoked |-> FALSE]]
      /\ fam' = [fam EXCEPT ![p] = f]
      /\ granted' = [granted EXCEPT ![f] = [code |-> c, client |-> client, scopes |-> s]]
      /\ codes' = [codes EXCEPT ![c].used = TRUE]
  BY <1>1 DEF Exchange, MintPair, CodeRow
<1>3. /\ NewRefresh(s, now) \in RefreshRow
      /\ [scopes |-> s, exp |-> now + AccessTTL, revoked |-> FALSE] \in AccessRow
      /\ [client |-> client, gen |-> secret, exp |-> now + RefreshTTL,
          revoked |-> FALSE] \in FamilyRow
      /\ [code |-> c, client |-> client, scopes |-> s] \in Grant
      /\ [codes[c] EXCEPT !.used = TRUE] \in CodeRow
  <2>1. NewRefresh(s, now) \in RefreshRow
    BY <1>1, <1>2 DEF NewRefresh, RefreshRow
  <2>2. [scopes |-> s, exp |-> now + AccessTTL, revoked |-> FALSE] \in AccessRow
    BY <1>1, <1>2 DEF AccessRow
  <2>3. [client |-> client, gen |-> secret, exp |-> now + RefreshTTL,
         revoked |-> FALSE] \in FamilyRow
    BY <1>1 DEF FamilyRow, TokenInv, TokenTypeOK
  <2>4. [code |-> c, client |-> client, scopes |-> s] \in Grant
    BY <1>2 DEF Grant
  <2>5. [codes[c] EXCEPT !.used = TRUE] \in CodeRow
    BY <1>1 DEF CodeRow
  <2> QED BY <2>1, <2>2, <2>3, <2>4, <2>5
<1> HIDE DEF s
<1>unborn. \A q \in Pair : fam[q] # f
  BY <1>1 DEF TokenInv, PairsKept, CodesSpent
<1>4. TokenTypeOK'
  <2>1. /\ codes' \in [Code -> CodeRow \union {Fresh, Gone}]
        /\ families' \in [Family -> FamilyRow \union {Fresh, Gone}]
        /\ granted' \in [Family -> Grant \union {Fresh}]
    BY <1>2, <1>3 DEF TokenInv, TokenTypeOK
  <2>2. /\ refresh' \in [Pair -> RefreshRow \union {Fresh, Gone}]
        /\ access' \in [Pair -> AccessRow \union {Fresh, Gone}]
        /\ fam' \in [Pair -> Family \union {Fresh}]
    BY <1>2, <1>3 DEF TokenInv, TokenTypeOK
  <2>3. ASSUME NEW x \in Pair, (Row(refresh, x) \/ Row(access, x))'
        PROVE  FamilyKept(x)'
    <3>1. CASE x = p
      BY <1>2, <1>3, <3>1 DEF TokenInv, TokenTypeOK, Row, FamilyKept
    <3>2. CASE x # p
      BY <1>2, <1>unborn, <2>3, <3>2 DEF TokenInv, TokenTypeOK, Row, FamilyKept
    <3> QED BY <3>1, <3>2
  <2> QED BY <2>1, <2>2, <2>3 DEF TokenInv, TokenTypeOK, Exchange
<1>5. PairsKept'
  BY <1>1, <1>2, <1>3, <1>unborn DEF TokenInv, TokenTypeOK, PairsKept, Row
<1>6. CodesSpent'
  BY <1>1, <1>2, <1>3 DEF TokenInv, TokenTypeOK, CodesSpent, Row, Grant, CodeRow
<1>7. ToldRevoked'
  BY <1>1, <1>2, <1>3 DEF TokenInv, TokenTypeOK, ToldRevoked, Row, Exchange
<1>9. \A g \in Family : granted[g] # Fresh => granted[g].code # c
  BY <1>1 DEF TokenInv, CodesSpent, Row
<1>10. OneHolder'
  BY <1>1, <1>2, <1>3, <1>unborn, <1>9 DEF TokenInv, TokenTypeOK, OneHolder, Row, Grant
<1>11. GrantIsNotExceeded'
  BY <1>1, <1>2, <1>3, <1>unborn
  DEF TokenInv, TokenTypeOK, GrantIsNotExceeded, Row, NewRefresh, PairsKept, CodesSpent
<1> QED BY <1>4, <1>5, <1>6, <1>7, <1>10, <1>11 DEF TokenInv

(* A rotation consumes the one unconsumed token and mints the next one. *)
LEMMA RotateKeeps ==
  ASSUME TokenInv, NEW now \in Now, NEW client \in Client,
         NEW p \in Pair, NEW q \in Pair, NEW scopes \in Scopes,
         Rotate(p, q, client, scopes, now)
  PROVE  TokenInv'
<1> USE Constants
<1> DEFINE f == fam[p]
<1>1. /\ now \in Nat /\ Row(refresh, p) /\ ~refresh[p].used
      /\ refresh[p] \in RefreshRow /\ scopes \subseteq refresh[p].scopes
      /\ f \in Family /\ Row(families, f) /\ families[f] \in FamilyRow
      /\ ~families[f].revoked /\ fam[q] = Fresh /\ p # q
  BY DEF Rotate, Now, RefreshOK, FindsRefresh, MintPair, TokenInv, TokenTypeOK, Row,
       FamilyKept
<1>2. /\ families' = [families EXCEPT ![f].exp = now + RefreshTTL]
      /\ refresh' = [refresh EXCEPT ![p].used = TRUE, ![q] = NewRefresh(scopes, now)]
      /\ access' = [access EXCEPT ![q] =
                      [scopes |-> scopes, exp |-> now + AccessTTL, revoked |-> FALSE]]
      /\ fam' = [fam EXCEPT ![q] = f]
      /\ UNCHANGED <<time, secret, codes, granted, told>>
  BY DEF Rotate, MintPair
<1>3. /\ NewRefresh(scopes, now) \in RefreshRow
      /\ [refresh[p] EXCEPT !.used = TRUE] \in RefreshRow
      /\ [scopes |-> scopes, exp |-> now + AccessTTL, revoked |-> FALSE] \in AccessRow
      /\ [families[f] EXCEPT !.exp = now + RefreshTTL] \in FamilyRow
  <2>1. NewRefresh(scopes, now) \in RefreshRow
    BY <1>1 DEF NewRefresh, RefreshRow
  <2>2. [refresh[p] EXCEPT !.used = TRUE] \in RefreshRow
    BY <1>1 DEF RefreshRow
  <2>3. [scopes |-> scopes, exp |-> now + AccessTTL, revoked |-> FALSE] \in AccessRow
    BY <1>1 DEF AccessRow
  <2>4. [families[f] EXCEPT !.exp = now + RefreshTTL] \in FamilyRow
    BY <1>1 DEF FamilyRow
  <2> QED BY <2>1, <2>2, <2>3, <2>4
<1> DEFINE spent == [refresh[p] EXCEPT !.used = TRUE]
           minted == NewRefresh(scopes, now)
           issued == [scopes |-> scopes, exp |-> now + AccessTTL, revoked |-> FALSE]
           moved == [families[f] EXCEPT !.exp = now + RefreshTTL]
<1>4. /\ spent.scopes = refresh[p].scopes /\ spent.used
      /\ minted.scopes = scopes /\ ~minted.used /\ issued.scopes = scopes
      /\ moved.client = families[f].client /\ moved.revoked = families[f].revoked
  BY <1>1 DEF RefreshRow, FamilyRow, NewRefresh
<1> HIDE DEF f, spent, minted, issued, moved
<1>5. /\ families' \in [Family -> FamilyRow \union {Fresh, Gone}]
      /\ \A g \in Family : families'[g] = IF g = f THEN moved ELSE families[g]
  BY <1>1, <1>2, <1>3 DEF TokenInv, TokenTypeOK, moved
<1>6. /\ refresh' \in [Pair -> RefreshRow \union {Fresh, Gone}]
      /\ \A x \in Pair : refresh'[x] = IF x = q THEN minted
                                        ELSE IF x = p THEN spent ELSE refresh[x]
  <2>1. refresh' = [refresh EXCEPT ![p] = spent, ![q] = minted]
    BY <1>2 DEF spent, minted
  <2> QED BY <1>1, <1>3, <2>1 DEF TokenInv, TokenTypeOK, spent, minted
<1>7. /\ access' \in [Pair -> AccessRow \union {Fresh, Gone}]
      /\ \A x \in Pair : access'[x] = IF x = q THEN issued ELSE access[x]
  BY <1>1, <1>2, <1>3 DEF TokenInv, TokenTypeOK, issued
<1>8. /\ fam' \in [Pair -> Family \union {Fresh}]
      /\ \A x \in Pair : fam'[x] = IF x = q THEN f ELSE fam[x]
  BY <1>1, <1>2 DEF TokenInv, TokenTypeOK
<1>9. /\ \A g \in Family : /\ Row(families, g)' <=> Row(families, g)
                           /\ families'[g] = Fresh <=> families[g] = Fresh
                           /\ families'[g] = Gone <=> families[g] = Gone
      /\ \A x \in Pair : Row(refresh, x)' <=> x = q \/ Row(refresh, x)
      /\ \A x \in Pair : Row(access, x)' <=> x = q \/ Row(access, x)
      /\ \A x \in Pair : x # q => (refresh'[x] = Fresh <=> refresh[x] = Fresh)
  <2>1. {spent, minted} \subseteq RefreshRow /\ issued \in AccessRow /\ moved \in FamilyRow
    BY <1>3 DEF spent, minted, issued, moved
  <2>2. \A r \in {spent, minted, issued, moved} : r # Fresh /\ r # Gone
    BY <2>1
  <2> QED BY <1>1, <1>5, <1>6, <1>7, <2>2 DEF Row
<1>10. TokenTypeOK'
  <2>1. \A x \in Pair : (Row(refresh, x) \/ Row(access, x))' => FamilyKept(x)'
    BY <1>1, <1>8, <1>9 DEF TokenInv, TokenTypeOK, FamilyKept
  <2> QED BY <1>2, <1>5, <1>6, <1>7, <1>8, <2>1 DEF TokenInv, TokenTypeOK
<1>11. PairsKept'
  <2>1. granted[f] # Fresh
    BY <1>1 DEF TokenInv, CodesSpent, Row
  <2>2. ASSUME NEW x \in Pair
        PROVE  /\ fam'[x] = Fresh => refresh'[x] = Fresh /\ access'[x] = Fresh
               /\ fam'[x] # Fresh => granted'[fam'[x]] # Fresh
               /\ fam'[x] # Fresh /\ Row(families, fam[x])' => Row(refresh, x)'
    <3>1. CASE x = q
      BY <1>1, <1>2, <1>8, <1>9, <2>1, <3>1
    <3>2. CASE x # q
      <4>1. /\ fam'[x] = fam[x] /\ access'[x] = access[x]
            /\ refresh'[x] = Fresh <=> refresh[x] = Fresh
            /\ Row(refresh, x) => Row(refresh, x)'
        BY <1>7, <1>8, <1>9, <3>2
      <4>2. fam[x] # Fresh => (Row(families, fam[x])' <=> Row(families, fam[x]))
        BY <1>9, <4>1 DEF TokenInv, TokenTypeOK
      <4> QED BY <1>2, <4>1, <4>2 DEF TokenInv, PairsKept
    <3> QED BY <3>1, <3>2
  <2> QED BY <2>2 DEF PairsKept
<1>12. CodesSpent'
  BY <1>2, <1>9 DEF TokenInv, CodesSpent, Row
<1>13. ToldRevoked'
  BY <1>2, <1>4, <1>5, <1>9 DEF TokenInv, TokenTypeOK, ToldRevoked
<1>14. \A x \in Pair : Row(refresh, x) /\ ~refresh[x].used /\ fam[x] = f => x = p
  BY <1>1 DEF TokenInv, OneHolder, f
<1>15. ASSUME NEW x \in Pair, Row(refresh, x)', ~refresh'[x].used
       PROVE  x = q \/ (x # p /\ Row(refresh, x) /\ refresh'[x] = refresh[x])
  BY <1>4, <1>6, <1>9, <1>15
<1>16. OneHolder'
  <2>1. ASSUME NEW x \in Pair, NEW y \in Pair, fam'[x] = fam'[y],
               Row(refresh, x)', ~refresh'[x].used, Row(refresh, y)', ~refresh'[y].used
        PROVE  x = y
    <3>1. \A z \in {x, y} : z # q => fam'[z] # f
      BY <1>8, <1>14, <1>15, <2>1
    <3>2. fam'[q] = f
      BY <1>8
    <3>3. CASE x # q /\ y # q
      BY <1>8, <1>15, <2>1, <3>3 DEF TokenInv, OneHolder
    <3> QED BY <2>1, <3>1, <3>2, <3>3
  <2>2. \A g, h \in Family :
          granted'[g] # Fresh /\ granted'[h] # Fresh /\ granted'[g].code = granted'[h].code
            => g = h
    BY <1>2 DEF TokenInv, OneHolder
  <2> QED BY <2>1, <2>2 DEF OneHolder
<1>17. GrantIsNotExceeded'
  <2>1. ASSUME NEW x \in Pair, Row(refresh, x)'
        PROVE  /\ fam'[x] = IF x = q THEN f ELSE fam[x]
               /\ refresh'[x].scopes = IF x = q THEN scopes ELSE refresh[x].scopes
               /\ x # q => Row(refresh, x)
    BY <1>4, <1>6, <1>8, <1>9, <2>1
  <2>2. scopes \subseteq granted[f].scopes
    BY <1>1 DEF TokenInv, GrantIsNotExceeded, f
  <2>3. \A g \in Family : Row(families, g)' => families'[g].client = granted'[g].client
    BY <1>1, <1>2, <1>4, <1>5, <1>9 DEF TokenInv, GrantIsNotExceeded
  <2>4. ASSUME NEW x \in Pair, Row(refresh, x)'
        PROVE  refresh'[x].scopes \subseteq granted'[fam'[x]].scopes
    <3>1. CASE x = q
      <4>1. refresh'[x].scopes = scopes /\ fam'[x] = f /\ granted' = granted
        BY <1>2, <2>1, <2>4, <3>1
      <4> QED BY <2>2, <4>1
    <3>2. CASE x # q
      BY <1>2, <2>1, <2>4, <3>2 DEF TokenInv, GrantIsNotExceeded
    <3> QED BY <3>1, <3>2
  <2>5. ASSUME NEW x \in Pair, Row(access, x)'
        PROVE  access'[x].scopes \subseteq granted'[fam'[x]].scopes
    <3>1. CASE x = q
      BY <1>2, <1>4, <1>7, <1>8, <2>2, <3>1
    <3>2. CASE x # q
      BY <1>2, <1>7, <1>8, <1>9, <2>5, <3>2 DEF TokenInv, GrantIsNotExceeded
    <3> QED BY <3>1, <3>2
  <2>6. ASSUME NEW x \in Pair, NEW y \in Pair, Row(refresh, x)', Row(refresh, y)',
               fam'[x] = fam'[y], ~refresh'[x].used
        PROVE  refresh'[x].scopes \subseteq refresh'[y].scopes
    <3>1. CASE x = q
      <4>1. \A z \in Pair : Row(refresh, z) /\ fam[z] = f =>
                              refresh[p].scopes \subseteq refresh[z].scopes
        BY <1>1 DEF TokenInv, GrantIsNotExceeded, f
      <4>2. refresh'[x].scopes = scopes /\ fam'[y] = f
        BY <2>1, <2>6, <3>1
      <4>3. CASE y = q
        BY <2>1, <2>6, <4>2, <4>3
      <4>4. CASE y # q
        <5>1. Row(refresh, y) /\ fam[y] = f /\ refresh'[y].scopes = refresh[y].scopes
          BY <2>1, <2>6, <4>2, <4>4
        <5> QED BY <1>1, <4>1, <4>2, <5>1
      <4> QED BY <4>3, <4>4
    <3>2. CASE x # q
      <4>1. Row(refresh, x) /\ x # p /\ refresh'[x] = refresh[x] /\ fam'[x] = fam[x]
        BY <1>8, <1>15, <2>6, <3>2
      <4>2. fam[x] # f
        BY <1>14, <2>6, <4>1
      <4>3. y # q
        BY <1>8, <2>6, <4>1, <4>2
      <4>4. Row(refresh, y) /\ fam'[y] = fam[y] /\ refresh'[y].scopes = refresh[y].scopes
        BY <2>1, <2>6, <4>3
      <4> QED BY <2>6, <4>1, <4>4 DEF TokenInv, GrantIsNotExceeded
    <3> QED BY <3>1, <3>2
  <2> QED BY <2>3, <2>4, <2>5, <2>6 DEF GrantIsNotExceeded
<1> QED BY <1>10, <1>11, <1>12, <1>13, <1>16, <1>17 DEF TokenInv

(* A detected replay and a revocation only set flags. *)
LEMMA RevocationKeeps ==
  ASSUME TokenInv, NEW p \in Pair, Replay(p) \/ RevokeAccess(p) \/ RevokeRefresh(p)
  PROVE  TokenInv'
<1> USE Constants
<1> DEFINE f == fam[p]
<1>1. /\ f \in Family /\ Row(families, f) /\ families[f] \in FamilyRow
  BY DEF Replay, RevokeAccess, RevokeRefresh, FindsRefresh, FindsAccess, TokenInv,
       TokenTypeOK, Row, FamilyKept
<1>2. /\ families' = [families EXCEPT ![f].revoked = TRUE]
      /\ told' = told \union {f}
      /\ UNCHANGED <<time, secret, codes, fam, granted>>
  BY DEF Replay, RevokeAccess, RevokeRefresh
<1>3. /\ [families[f] EXCEPT !.revoked = TRUE] \in FamilyRow
      /\ [families[f] EXCEPT !.revoked = TRUE].revoked
      /\ [families[f] EXCEPT !.revoked = TRUE].client = families[f].client
  BY <1>1 DEF FamilyRow
<1>4. \/ refresh' = refresh
      \/ /\ Row(refresh, p) /\ refresh[p] \in RefreshRow
         /\ refresh' = [refresh EXCEPT ![p].revoked = TRUE]
  BY DEF Replay, RevokeAccess, RevokeRefresh, FindsRefresh, TokenInv, TokenTypeOK, Row
<1>5. \/ access' = access
      \/ /\ Row(access, p) /\ access[p] \in AccessRow
         /\ access' = [access EXCEPT ![p].revoked = TRUE]
  BY DEF Replay, RevokeAccess, RevokeRefresh, FindsAccess, TokenInv, TokenTypeOK, Row
<1>6. /\ refresh' \in [Pair -> RefreshRow \union {Fresh, Gone}]
      /\ \A x \in Pair :
           /\ Row(refresh, x)' <=> Row(refresh, x)
           /\ refresh'[x] = Fresh <=> refresh[x] = Fresh
           /\ Row(refresh, x) => /\ refresh'[x].used = refresh[x].used
                                 /\ refresh'[x].scopes = refresh[x].scopes
  <2>1. CASE refresh' = refresh
    BY <2>1 DEF Row, TokenInv, TokenTypeOK
  <2>2. CASE refresh' # refresh
    <3> DEFINE r == [refresh[p] EXCEPT !.revoked = TRUE]
    <3>1. /\ r \in RefreshRow /\ r.scopes = refresh[p].scopes
          /\ r.used = refresh[p].used
      BY <1>4, <2>2 DEF RefreshRow
    <3>2. Row(refresh, p) /\ refresh' = [refresh EXCEPT ![p] = r]
      BY <1>4, <2>2
    <3>3. /\ refresh \in [Pair -> RefreshRow \union {Fresh, Gone}]
          /\ Fresh \notin RefreshRow /\ Gone \notin RefreshRow
      BY DEF TokenInv, TokenTypeOK
    <3> HIDE DEF r
    <3>4. r # Fresh /\ r # Gone /\ refresh[p] # Fresh /\ refresh[p] # Gone
      BY <3>1, <3>2, <3>3 DEF Row
    <3>5. \A x \in Pair : refresh'[x] = IF x = p THEN r ELSE refresh[x]
      BY <3>2, <3>3
    <3>6. refresh' \in [Pair -> RefreshRow \union {Fresh, Gone}]
      BY <3>1, <3>2, <3>3
    <3> QED BY <3>1, <3>4, <3>5, <3>6 DEF Row
  <2> QED BY <2>1, <2>2
<1>7. /\ access' \in [Pair -> AccessRow \union {Fresh, Gone}]
      /\ \A x \in Pair :
           /\ Row(access, x)' <=> Row(access, x)
           /\ access'[x] = Fresh <=> access[x] = Fresh
           /\ Row(access, x) => access'[x].scopes = access[x].scopes
  <2>1. CASE access' = access
    BY <2>1 DEF Row, TokenInv, TokenTypeOK
  <2>2. CASE access' # access
    <3> DEFINE r == [access[p] EXCEPT !.revoked = TRUE]
    <3>1. /\ r \in AccessRow /\ r.scopes = access[p].scopes
      BY <1>5, <2>2 DEF AccessRow
    <3>2. Row(access, p) /\ access' = [access EXCEPT ![p] = r]
      BY <1>5, <2>2
    <3>3. /\ access \in [Pair -> AccessRow \union {Fresh, Gone}]
          /\ Fresh \notin AccessRow /\ Gone \notin AccessRow
      BY DEF TokenInv, TokenTypeOK
    <3> HIDE DEF r
    <3>4. r # Fresh /\ r # Gone /\ access[p] # Fresh /\ access[p] # Gone
      BY <3>1, <3>2, <3>3 DEF Row
    <3>5. \A x \in Pair : access'[x] = IF x = p THEN r ELSE access[x]
      BY <3>2, <3>3
    <3>6. access' \in [Pair -> AccessRow \union {Fresh, Gone}]
      BY <3>1, <3>2, <3>3
    <3> QED BY <3>1, <3>4, <3>5, <3>6 DEF Row
  <2> QED BY <2>1, <2>2
<1> HIDE DEF f
<1>8. TokenTypeOK'
  <2>1. families' \in [Family -> FamilyRow \union {Fresh, Gone}]
    BY <1>2, <1>3 DEF TokenInv, TokenTypeOK
  <2>2. \A g \in Family : Row(families, g)' <=> Row(families, g)
    BY <1>1, <1>2, <1>3 DEF TokenInv, TokenTypeOK, Row
  <2>3. \A x \in Pair : (Row(refresh, x) \/ Row(access, x))' => FamilyKept(x)'
    BY <1>2, <1>6, <1>7, <2>2 DEF TokenInv, TokenTypeOK, FamilyKept
  <2> QED BY <1>1, <1>2, <1>6, <1>7, <2>1, <2>3 DEF TokenInv, TokenTypeOK
<1>9. PairsKept'
  BY <1>1, <1>2, <1>3, <1>6, <1>7 DEF TokenInv, TokenTypeOK, PairsKept, Row
<1>10. CodesSpent' /\ ToldRevoked'
  <2>1. \A g \in Family \ {f} : families'[g] = families[g]
    BY <1>1, <1>2 DEF TokenInv, TokenTypeOK
  <2>2. families'[f] = [families[f] EXCEPT !.revoked = TRUE]
    BY <1>1, <1>2 DEF TokenInv, TokenTypeOK
  <2>3. \A g \in Family : /\ families'[g] = Fresh <=> families[g] = Fresh
                          /\ families'[g] = Gone <=> families[g] = Gone
                          /\ Row(families, g)' <=> Row(families, g)
    BY <1>1, <1>3, <2>1, <2>2 DEF Row
  <2>4. CodesSpent'
    BY <1>2, <2>3 DEF TokenInv, CodesSpent, Row
  <2>5. ToldRevoked'
    <3>1. Row(families', f)
      BY <1>1, <2>3
    <3>2. families'[f].revoked
      BY <1>3, <2>2
    <3>3. told \subseteq Family
      BY DEF TokenInv, TokenTypeOK
    <3>4. ASSUME NEW g \in told', families'[g] # Gone
          PROVE  Row(families, g)' /\ families'[g].revoked
      <4>1. CASE g = f
        BY <3>1, <3>2, <4>1
      <4>2. CASE g # f
        <5>1. g \in told /\ g \in Family /\ families'[g] = families[g]
          BY <1>2, <2>1, <3>3, <4>2
        <5> QED BY <2>3, <3>4, <5>1 DEF TokenInv, ToldRevoked
      <4> QED BY <4>1, <4>2
    <3> QED BY <3>4 DEF ToldRevoked
  <2> QED BY <2>4, <2>5
<1>11. OneHolder'
  BY <1>2, <1>6 DEF TokenInv, OneHolder
<1>12. GrantIsNotExceeded'
  BY <1>1, <1>2, <1>3, <1>6, <1>7 DEF TokenInv, TokenTypeOK, GrantIsNotExceeded, Row
<1> QED BY <1>8, <1>9, <1>10, <1>11, <1>12 DEF TokenInv

(* Time and the configured secret appear in no part but the types. *)
LEMMA OutsideKeeps ==
  ASSUME TokenInv,
         Tick \/ (\E s \in Secret : ChangeSecret(s)) \/ UNCHANGED tokenVars
  PROVE  TokenInv'
<1> UNCHANGED <<tables, fam, granted, told>> /\ time' \in 0 .. MaxTime /\ secret' \in Secret
  BY Constants DEF Tick, ChangeSecret, tokenVars, TokenInv, TokenTypeOK
<1> QED BY DEF tables, TokenInv, TokenTypeOK, Row, FamilyKept, PairsKept, CodesSpent,
     ToldRevoked, OneHolder, GrantIsNotExceeded

(***************************************************************************)
(* The inductive invariant holds for any number of codes, families, pairs, *)
(* clients and secrets, and any lifetimes.                                 *)
(***************************************************************************)
THEOREM TokensCorrect == TokenSpec => []TokenInv
<1>1. TokenInv /\ [TokenNext]_tokenVars => TokenInv'
  BY IssueCodeKeeps, ExchangeKeeps, RotateKeeps, RevocationKeeps, OutsideKeeps
  DEF TokenNext
<1> QED BY <1>1, TokenInitInv, PTL DEF TokenSpec

(***************************************************************************)
(* A code starts at most one family and a family has at most one token     *)
(* that can still be exchanged (single use, rotation).                     *)
(***************************************************************************)
THEOREM OneHolderAlways == TokenSpec => []OneHolder
BY TokensCorrect, PTL DEF TokenInv

(***************************************************************************)
(* Tokens never exceed what the owner approved, and a rotation never gives *)
(* back scopes that an earlier one gave up.                                *)
(***************************************************************************)
THEOREM GrantsBound == TokenSpec => []GrantIsNotExceeded
BY TokensCorrect, PTL DEF TokenInv

(***************************************************************************)
(* After a reported revocation or replay nothing of the family is accepted *)
(* at any time and under any secret.                                       *)
(***************************************************************************)
THEOREM RevocationsLast == TokenSpec => []RevocationIsFinal
<1>1. TokenInv => RevocationIsFinal
  BY DEF TokenInv, TokenTypeOK, ToldRevoked, RevocationIsFinal, RefreshOK, AccessOK,
       FindsRefresh, FindsAccess, Row, FamilyKept
<1> QED BY <1>1, TokensCorrect, PTL

(***************************************************************************)
(* While a family is usable none of its refresh tokens has been forgotten. *)
(***************************************************************************)
THEOREM ReplaysAreSeen == TokenSpec => []ReplayIsDetectable
<1>1. TokenInv => ReplayIsDetectable
  BY DEF TokenInv, TokenTypeOK, PairsKept, ReplayIsDetectable, RefreshOK, AccessOK,
       FindsRefresh, FindsAccess, Row, FamilyKept, InFamily
<1> QED BY <1>1, TokensCorrect, PTL

(* The action property at one pair, without the box. *)
SessionKept(p) ==
    /\ AccessOK(p, time) => AccessOK(p, time)'
    /\ RefreshOK(p, time) =>
         RefreshOK(p, time)' \/ (Row(refresh, p)' /\ refresh'[p].used)

(* What a pair's acceptance depends on. *)
LEMMA SameRowsSameSession ==
  ASSUME TokenInv, UNCHANGED <<time, secret>>, NEW p \in Pair,
         fam[p] # Fresh, fam'[p] = fam[p],
         Row(families, fam[p]) => families'[fam[p]] = families[fam[p]],
         refresh'[p] = refresh[p], access'[p] = access[p]
  PROVE  SessionKept(p)
BY DEF SessionKept, AccessOK, RefreshOK, FindsAccess, FindsRefresh, TokenInv,
   TokenTypeOK, Row, FamilyKept

(* What cleaning up deletes had expired for every later request. *)
LEMMA CleanupKeepsSessions ==
  ASSUME TokenInv, NEW now \in Now, NEW client \in Client,
         NEW c \in Code, NEW scopes \in Scopes, IssueCode(c, client, scopes, now),
         NEW p \in Pair, fam[p] # Fresh
  PROVE  SessionKept(p)
<1>1. /\ now \in Nat /\ time \in Nat /\ now <= time /\ fam[p] \in Family
      /\ UNCHANGED <<time, secret, fam>>
      /\ families' = [f \in Family |-> IF f \in ExpiredFamilies(now)
                                       THEN Gone ELSE families[f]]
      /\ refresh' = [x \in Pair |-> IF fam[x] \in ExpiredFamilies(now)
                                    THEN Gone ELSE refresh[x]]
      /\ access' = [x \in Pair |-> IF \/ fam[x] \in ExpiredFamilies(now)
                                      \/ Row(access, x) /\ access[x].exp < now
                                   THEN Gone ELSE access[x]]
  BY DEF IssueCode, DeleteExpired, Now, TokenInv, TokenTypeOK
<1>2. ASSUME AccessOK(p, time)  PROVE AccessOK(p, time)'
  <2>1. /\ Row(access, p) /\ access[p].exp \in Nat /\ access[p].exp > time
        /\ Row(families, fam[p]) /\ families[fam[p]].exp \in Nat
        /\ families[fam[p]].exp > time
    BY <1>1, <1>2 DEF AccessOK, FindsAccess, TokenInv, TokenTypeOK, FamilyKept, Row,
         AccessRow, FamilyRow
  <2>2. fam[p] \notin ExpiredFamilies(now) /\ ~(access[p].exp < now)
    BY <1>1, <2>1 DEF ExpiredFamilies
  <2>3. families'[fam[p]] = families[fam[p]] /\ access'[p] = access[p]
    BY <1>1, <2>2
  <2> QED BY <1>1, <1>2, <2>3 DEF AccessOK, FindsAccess, Row
<1>3. ASSUME RefreshOK(p, time)  PROVE RefreshOK(p, time)'
  <2>1. /\ Row(families, fam[p]) /\ families[fam[p]].exp \in Nat
        /\ families[fam[p]].exp > time
    BY <1>1, <1>3 DEF RefreshOK, FindsRefresh, TokenInv, TokenTypeOK, FamilyKept, Row,
         FamilyRow
  <2>2. fam[p] \notin ExpiredFamilies(now)
    BY <1>1, <2>1 DEF ExpiredFamilies
  <2>3. families'[fam[p]] = families[fam[p]] /\ refresh'[p] = refresh[p]
    BY <1>1, <2>2
  <2> QED BY <1>1, <1>3, <2>3 DEF RefreshOK, FindsRefresh, Row
<1> QED BY <1>2, <1>3 DEF SessionKept

(* A rotation may act on an old time, but extends the family beyond now. *)
LEMMA RotateKeepsSessions ==
  ASSUME TokenInv, NEW now \in Now, NEW client \in Client,
         NEW r \in Pair, NEW q \in Pair, NEW scopes \in Scopes,
         Rotate(r, q, client, scopes, now),
         NEW p \in Pair, fam[p] # Fresh
  PROVE  SessionKept(p)
<1>1. /\ p # q /\ fam'[p] = fam[p] /\ access'[p] = access[p]
      /\ p # r => refresh'[p] = refresh[p]
      /\ fam[p] # fam[r] => families'[fam[p]] = families[fam[p]]
      /\ UNCHANGED <<time, secret>>
      /\ fam[p] \in Family /\ fam[r] \in Family
  BY Constants DEF Rotate, MintPair, RefreshOK, FindsRefresh, FamilyKept, TokenInv,
       TokenTypeOK
<1>2. CASE fam[p] # fam[r]
  BY <1>1, <1>2, SameRowsSameSession
<1>3. CASE fam[p] = fam[r]
  <2> DEFINE f == fam[p]
  <2>1. /\ Row(families, f) /\ families[f] \in FamilyRow
        /\ families'[f] = [families[f] EXCEPT !.exp = now + RefreshTTL]
    BY <1>1, <1>3 DEF Rotate, RefreshOK, FindsRefresh, FamilyKept, Row, TokenInv,
         TokenTypeOK
  <2>2. /\ families'[f].gen = families[f].gen
        /\ families'[f].revoked = families[f].revoked
        /\ families'[f].exp = now + RefreshTTL
    BY <2>1 DEF FamilyRow
  <2>3. now + RefreshTTL > time
    BY TokenAssumption DEF Now, TokenInv, TokenTypeOK
  <2>4. AccessOK(p, time) => AccessOK(p, time)'
    BY <1>1, <2>1, <2>2, <2>3 DEF AccessOK, FindsAccess, Row
  <2>5. CASE p = r
    <3>1. refresh'[p].used /\ refresh'[p] = [refresh[p] EXCEPT !.used = TRUE]
          /\ refresh[p] \in RefreshRow
      BY <1>1, <2>5 DEF Rotate, RefreshOK, FindsRefresh, Row, TokenInv, TokenTypeOK,
           RefreshRow
    <3>2. Row(refresh, p)'
      BY <3>1, Constants DEF Row, RefreshRow
    <3> QED BY <2>4, <3>1, <3>2 DEF SessionKept
  <2>6. CASE p # r
    <3>1. RefreshOK(p, time) => RefreshOK(p, time)'
      BY <1>1, <2>1, <2>2, <2>3, <2>6 DEF RefreshOK, FindsRefresh, Row
    <3> QED BY <2>4, <3>1 DEF SessionKept
  <2> QED BY <2>5, <2>6
<1> QED BY <1>2, <1>3

(***************************************************************************)
(* No request ends a session but one that revokes its family: cleaning up, *)
(* exchanges and rotations leave every good token good, for any lifetimes  *)
(* longer than a request may wait.                                         *)
(***************************************************************************)
THEOREM SessionsSurvive == TokenSpec => SessionsLast
<1>1. ASSUME TokenInv, [TokenNext]_tokenVars, UNCHANGED <<time, secret>>,
             NEW p \in Pair, fam[p] # Fresh, fam[p] \notin told'
      PROVE  SessionKept(p)
  <2>1. CASE UNCHANGED tokenVars
    BY <1>1, <2>1, SameRowsSameSession DEF tokenVars, tables
  <2>2. CASE Tick \/ \E s \in Secret : ChangeSecret(s)
    BY <1>1, <2>2 DEF Tick, ChangeSecret, TokenInv, TokenTypeOK
  <2>3. ASSUME NEW now \in Now, NEW client \in Client, NEW c \in Code,
               NEW scopes \in Scopes, IssueCode(c, client, scopes, now)
        PROVE  SessionKept(p)
    BY <1>1, <2>3, CleanupKeepsSessions
  <2>4. ASSUME NEW now \in Now, NEW client \in Client, NEW c \in Code,
               NEW f \in Family, NEW q \in Pair, Exchange(c, f, q, client, now)
        PROVE  SessionKept(p)
    <3>1. /\ q # p /\ fam'[p] = fam[p] /\ refresh'[p] = refresh[p]
          /\ access'[p] = access[p]
          /\ Row(families, fam[p]) => families'[fam[p]] = families[fam[p]]
      BY <1>1, <2>4 DEF Exchange, MintPair, TokenInv, TokenTypeOK, Row
    <3> QED BY <1>1, <3>1, SameRowsSameSession
  <2>5. ASSUME NEW now \in Now, NEW client \in Client, NEW r \in Pair,
               NEW q \in Pair, NEW scopes \in Scopes, Rotate(r, q, client, scopes, now)
        PROVE  SessionKept(p)
    BY <1>1, <2>5, RotateKeepsSessions
  <2>6. ASSUME NEW r \in Pair, Replay(r) \/ RevokeAccess(r) \/ RevokeRefresh(r)
        PROVE  SessionKept(p)
    <3>1. fam[r] # fam[p]
      BY <1>1, <2>6 DEF Replay, RevokeAccess, RevokeRefresh
    <3>2. /\ fam'[p] = fam[p] /\ refresh'[p] = refresh[p] /\ access'[p] = access[p]
          /\ Row(families, fam[p]) => families'[fam[p]] = families[fam[p]]
      <4>1. fam[p] \in Family /\ r # p
        BY <1>1, <3>1 DEF TokenInv, TokenTypeOK
      <4>2. CASE Replay(r)
        BY <1>1, <3>1, <4>1, <4>2 DEF Replay, TokenInv, TokenTypeOK
      <4>3. CASE RevokeAccess(r)
        BY <1>1, <3>1, <4>1, <4>3 DEF RevokeAccess, TokenInv, TokenTypeOK
      <4>4. CASE RevokeRefresh(r)
        BY <1>1, <3>1, <4>1, <4>4 DEF RevokeRefresh, TokenInv, TokenTypeOK
      <4> QED BY <2>6, <4>2, <4>3, <4>4
    <3> QED BY <1>1, <3>2, SameRowsSameSession
  <2> QED BY <1>1, <2>1, <2>2, <2>3, <2>4, <2>5, <2>6 DEF TokenNext
<1>2. TokenInv /\ [TokenNext]_tokenVars =>
        [time' = time /\ secret' = secret =>
           \A p \in Pair : fam[p] # Fresh /\ fam[p] \notin told' =>
              /\ AccessOK(p, time) => AccessOK(p, time)'
              /\ RefreshOK(p, time) =>
                   RefreshOK(p, time)' \/ (Row(refresh, p)' /\ refresh'[p].used)]_tokenVars
  BY <1>1 DEF SessionKept
<1> QED BY <1>2, TokensCorrect, PTL DEF TokenSpec, SessionsLast

(***************************************************************************)
(* Rows have the columns' types, and what names another row finds it: the  *)
(* cleanup deletes families together with what hangs on them.              *)
(***************************************************************************)
THEOREM TokenTypeCorrect == TokenSpec => []TokenTypeOK
<1>1. TokenInv => TokenTypeOK
  BY DEF TokenInv
<1> QED BY <1>1, TokensCorrect, PTL
=============================================================================
