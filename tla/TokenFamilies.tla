--------------------------- MODULE TokenFamilies ---------------------------
(***************************************************************************)
(* The OAuth authorization server (oauth/service.py): authorization codes, *)
(* and token families in which each refresh consumes one refresh token and *)
(* mints the next pair.  Presenting a consumed refresh token again revokes *)
(* its family.                                                             *)
(*                                                                         *)
(* Each request takes the time before it waits for the database, so it may *)
(* act on a time up to MaxWait old; with several processes on PostgreSQL   *)
(* requests need not act in the order of their times.  The writes of one   *)
(* request are one database transaction, hence one step; rejected requests *)
(* change nothing, except a detected replay.  A response may be lost: what *)
(* a client holds is not part of the state, any request may come again.    *)
(* Digests are keyed with a secret; a changed secret hides every row made  *)
(* under another one.                                                      *)
(***************************************************************************)
EXTENDS Integers

CONSTANTS
    Code, Family, Pair,   \* random values: codes, family ids, token pairs
    Client, Secret,
    Scopes,               \* the sets of scopes clients ask for
    CodeTTL, AccessTTL, RefreshTTL,
    MaxWait,              \* how long a request may wait for the database
    MaxTime,              \* bound: the clock
    Fresh, Gone           \* a row not yet created, a row deleted

CodeRow == [client : Client, scopes : Scopes, gen : Secret, exp : Nat, used : BOOLEAN]
FamilyRow == [client : Client, gen : Secret, exp : Nat, revoked : BOOLEAN]
RefreshRow == [scopes : Scopes, exp : Nat, used : BOOLEAN, revoked : BOOLEAN]
AccessRow == [scopes : Scopes, exp : Nat, revoked : BOOLEAN]

(* What the owner consented to, remembered when a code is exchanged. *)
Grant == [code : Code, client : Client, scopes : Scopes]

ASSUME TokenAssumption ==
    /\ {CodeTTL, AccessTTL, RefreshTTL, MaxWait, MaxTime} \subseteq Nat
    /\ {} \notin Scopes
    /\ AccessTTL <= RefreshTTL
    /\ MaxWait < RefreshTTL
    /\ Fresh # Gone
    /\ {Fresh, Gone} \cap (CodeRow \union FamilyRow \union RefreshRow
                             \union AccessRow \union Family \union Grant) = {}

VARIABLES
    time,
    secret,    \* the configured owner secret; hmac_key and generation follow
    codes,     \* oauth_authorization_codes
    families,  \* oauth_token_families
    refresh,   \* oauth_refresh_tokens
    access,    \* oauth_access_tokens
    fam,       \* family_id of a pair, kept when its rows are deleted
    granted,   \* history: the grant each family was created for
    told       \* history: families whose revocation was reported

tables == <<codes, families, refresh, access>>
tokenVars == <<time, secret, tables, fam, granted, told>>

Row(table, id) == table[id] \notin {Fresh, Gone}

(* The foreign key of both token tables. *)
FamilyKept(p) == fam[p] # Fresh /\ Row(families, fam[p])

TokenTypeOK ==
    /\ time \in 0 .. MaxTime
    /\ secret \in Secret
    /\ codes \in [Code -> CodeRow \union {Fresh, Gone}]
    /\ families \in [Family -> FamilyRow \union {Fresh, Gone}]
    /\ refresh \in [Pair -> RefreshRow \union {Fresh, Gone}]
    /\ access \in [Pair -> AccessRow \union {Fresh, Gone}]
    /\ fam \in [Pair -> Family \union {Fresh}]
    /\ granted \in [Family -> Grant \union {Fresh}]
    /\ told \subseteq Family
    /\ \A p \in Pair : Row(refresh, p) \/ Row(access, p) => FamilyKept(p)

TokenInit ==
    /\ time = 0
    /\ secret \in Secret
    /\ codes = [c \in Code |-> Fresh]
    /\ families = [f \in Family |-> Fresh]
    /\ refresh = [p \in Pair |-> Fresh]
    /\ access = [p \in Pair |-> Fresh]
    /\ fam = [p \in Pair |-> Fresh]
    /\ granted = [f \in Family |-> Fresh]
    /\ told = {}

-----------------------------------------------------------------------------
(* The time a request executing now may have taken. *)
Now == {t \in 0 .. time : t >= time - MaxWait}

(* A digest finds a row only under the secret the row was made with. *)
FindsCode(c) == Row(codes, c) /\ codes[c].gen = secret
FindsRefresh(p) == Row(refresh, p) /\ families[fam[p]].gen = secret
FindsAccess(p) == Row(access, p) /\ families[fam[p]].gen = secret

CodesAfterCleanup(now) ==
    [c \in Code |-> IF Row(codes, c) /\ codes[c].exp < now THEN Gone ELSE codes[c]]

(* Faulty: a family expires with any of its refresh tokens. *)
AgedFamilies(now) ==
    {f \in Family : Row(families, f) /\ \E p \in Pair :
                       fam[p] = f /\ Row(refresh, p) /\ refresh[p].exp < now}

ExpiredFamilies(now) == {f \in Family : Row(families, f) /\ families[f].exp < now}

(* Faulty: the foreign keys do not cascade. *)
DeleteWithoutCascade(now) ==
    /\ families' = [f \in Family |-> IF f \in ExpiredFamilies(now)
                                     THEN Gone ELSE families[f]]
    /\ access' = [p \in Pair |-> IF Row(access, p) /\ access[p].exp < now
                                 THEN Gone ELSE access[p]]
    /\ UNCHANGED refresh

(* Faulty: refresh tokens are cleaned up like access tokens. *)
DeleteExpiredRefresh(now) ==
    /\ families' = [f \in Family |-> IF f \in ExpiredFamilies(now)
                                     THEN Gone ELSE families[f]]
    /\ refresh' = [p \in Pair |-> IF \/ fam[p] \in ExpiredFamilies(now)
                                     \/ Row(refresh, p) /\ refresh[p].exp < now
                                  THEN Gone ELSE refresh[p]]
    /\ access' = [p \in Pair |-> IF \/ fam[p] \in ExpiredFamilies(now)
                                    \/ Row(access, p) /\ access[p].exp < now
                                 THEN Gone ELSE access[p]]

(* _delete_expired; the tokens of a deleted family go with it (CASCADE). *)
DeleteExpired(now) ==
    /\ families' = [f \in Family |-> IF f \in ExpiredFamilies(now)
                                     THEN Gone ELSE families[f]]
    /\ refresh' = [p \in Pair |-> IF fam[p] \in ExpiredFamilies(now)
                                  THEN Gone ELSE refresh[p]]
    /\ access' = [p \in Pair |-> IF \/ fam[p] \in ExpiredFamilies(now)
                                    \/ Row(access, p) /\ access[p].exp < now
                                 THEN Gone ELSE access[p]]

(* issue_authorization_code, after the owner approved. *)
IssueCode(c, client, scopes, now) ==
    /\ codes[c] = Fresh
    /\ DeleteExpired(now)
    /\ codes' = [CodesAfterCleanup(now) EXCEPT ![c] =
                   [client |-> client, scopes |-> scopes, gen |-> secret,
                    exp |-> now + CodeTTL, used |-> FALSE]]
    /\ UNCHANGED <<time, secret, fam, granted, told>>

(* _rotate_token_pair: a new pair p of family f. *)
MintPair(p, f, scopes, now) ==
    /\ fam[p] = Fresh
    /\ fam' = [fam EXCEPT ![p] = f]
    /\ access' = [access EXCEPT ![p] =
                    [scopes |-> scopes, exp |-> now + AccessTTL, revoked |-> FALSE]]

NewRefresh(scopes, now) ==
    [scopes |-> scopes, exp |-> now + RefreshTTL, used |-> FALSE, revoked |-> FALSE]

CodeOK(c, client, now) ==
    /\ FindsCode(c)
    /\ ~codes[c].used
    /\ codes[c].exp > now
    /\ codes[c].client = client

(* exchange_authorization_code *)
Exchange(c, f, p, client, now) ==
    /\ CodeOK(c, client, now)
    /\ codes' = [codes EXCEPT ![c].used = TRUE]
    /\ families[f] = Fresh
    /\ families' = [families EXCEPT ![f] =
                      [client |-> client, gen |-> secret, exp |-> now + RefreshTTL,
                       revoked |-> FALSE]]
    /\ MintPair(p, f, codes[c].scopes, now)
    /\ refresh' = [refresh EXCEPT ![p] = NewRefresh(codes[c].scopes, now)]
    /\ granted' = [granted EXCEPT ![f] =
                     [code |-> c, client |-> codes[c].client, scopes |-> codes[c].scopes]]
    /\ UNCHANGED <<time, secret, told>>

RefreshOK(p, now) ==
    /\ FindsRefresh(p)
    /\ ~refresh[p].used /\ ~refresh[p].revoked
    /\ ~families[fam[p]].revoked
    /\ refresh[p].exp > now
    /\ families[fam[p]].exp > now

(* Faulty: requested scopes are compared with the grant. *)
WidenScopes(p, q, client, scopes, now) ==
    /\ RefreshOK(p, now)
    /\ families[fam[p]].client = client
    /\ scopes \subseteq granted[fam[p]].scopes
    /\ families' = [families EXCEPT ![fam[p]].exp = now + RefreshTTL]
    /\ MintPair(q, fam[p], scopes, now)
    /\ refresh' = [refresh EXCEPT ![p].used = TRUE, ![q] = NewRefresh(scopes, now)]
    /\ UNCHANGED <<time, secret, codes, granted, told>>

(* Faulty: the presented token is not consumed. *)
RotateAgain(p, q, client, scopes, now) ==
    /\ RefreshOK(p, now)
    /\ families[fam[p]].client = client
    /\ scopes \subseteq refresh[p].scopes
    /\ families' = [families EXCEPT ![fam[p]].exp = now + RefreshTTL]
    /\ MintPair(q, fam[p], scopes, now)
    /\ refresh' = [refresh EXCEPT ![q] = NewRefresh(scopes, now)]
    /\ UNCHANGED <<time, secret, codes, granted, told>>

(* refresh, accepted: p is consumed, q is the next pair of the family. *)
Rotate(p, q, client, scopes, now) ==
    /\ RefreshOK(p, now)
    /\ families[fam[p]].client = client
    /\ scopes \subseteq refresh[p].scopes
    /\ families' = [families EXCEPT ![fam[p]].exp = now + RefreshTTL]
    /\ MintPair(q, fam[p], scopes, now)
    /\ refresh' = [refresh EXCEPT ![p].used = TRUE, ![q] = NewRefresh(scopes, now)]
    /\ UNCHANGED <<time, secret, codes, granted, told>>

(* Faulty: the error that reports the replay rolls the revocation back. *)
ReplayRolledBack(p) ==
    /\ FindsRefresh(p)
    /\ refresh[p].used
    /\ told' = told \union {fam[p]}
    /\ UNCHANGED <<time, secret, tables, fam, granted>>

(* refresh with a consumed token: the revocation is committed before the   *)
(* error is raised.  compromise_detected_at is never read and left out.    *)
Replay(p) ==
    /\ FindsRefresh(p)
    /\ refresh[p].used
    /\ families' = [families EXCEPT ![fam[p]].revoked = TRUE]
    /\ told' = told \union {fam[p]}
    /\ UNCHANGED <<time, secret, codes, refresh, access, fam, granted>>

(* revoke, of an access or of a refresh token. *)
RevokeAccess(p) ==
    /\ FindsAccess(p)
    /\ access' = [access EXCEPT ![p].revoked = TRUE]
    /\ families' = [families EXCEPT ![fam[p]].revoked = TRUE]
    /\ told' = told \union {fam[p]}
    /\ UNCHANGED <<time, secret, codes, refresh, fam, granted>>

RevokeRefresh(p) ==
    /\ FindsRefresh(p)
    /\ refresh' = [refresh EXCEPT ![p].revoked = TRUE]
    /\ families' = [families EXCEPT ![fam[p]].revoked = TRUE]
    /\ told' = told \union {fam[p]}
    /\ UNCHANGED <<time, secret, codes, access, fam, granted>>

(* verify_access_token changes nothing: it accepts or not. *)
AccessOK(p, now) ==
    /\ FindsAccess(p)
    /\ ~access[p].revoked
    /\ ~families[fam[p]].revoked
    /\ access[p].exp > now
    /\ families[fam[p]].exp > now

(* The service is restarted with another owner secret. *)
ChangeSecret(s) ==
    /\ s # secret
    /\ secret' = s
    /\ UNCHANGED <<time, tables, fam, granted, told>>

Tick ==
    /\ time < MaxTime
    /\ time' = time + 1
    /\ UNCHANGED <<secret, tables, fam, granted, told>>

TokenNext ==
    \/ Tick
    \/ \E s \in Secret : ChangeSecret(s)
    \/ \E now \in Now, client \in Client :
         \/ \E c \in Code, scopes \in Scopes : IssueCode(c, client, scopes, now)
         \/ \E c \in Code, f \in Family, p \in Pair : Exchange(c, f, p, client, now)
         \/ \E p, q \in Pair, scopes \in Scopes : Rotate(p, q, client, scopes, now)
    \/ \E p \in Pair : Replay(p) \/ RevokeAccess(p) \/ RevokeRefresh(p)

TokenSpec == TokenInit /\ [][TokenNext]_tokenVars

-----------------------------------------------------------------------------
InFamily(f) == {p \in Pair : fam[p] = f}

(***************************************************************************)
(* A family is a chain: of all its refresh tokens at most one is not         *)
(* consumed, so that two holders of one lineage cannot both    *)
(* go on, and a code starts at most one family.                            *)
(***************************************************************************)
OneHolder ==
    /\ \A f, g \in Family :
         granted[f] # Fresh /\ granted[g] # Fresh /\ granted[f].code = granted[g].code
           => f = g
    /\ \A p, q \in {x \in Pair : Row(refresh, x) /\ ~refresh[x].used} :
         fam[p] = fam[q] => p = q

(***************************************************************************)
(* Once a revocation or a replay was reported, no token of that family is  *)
(* accepted again, whatever time a request carries.                        *)
(***************************************************************************)
RevocationIsFinal ==
    \A p \in Pair : fam[p] \in told =>
        \A now \in Now : ~RefreshOK(p, now) /\ ~AccessOK(p, now)

(***************************************************************************)
(* A stolen token is always noticed: while any token of a family can be    *)
(* accepted, every refresh token the family ever had is on record, so that *)
(* presenting a consumed one is detected as a replay.                      *)
(***************************************************************************)
ReplayIsDetectable ==
    \A p \in Pair : fam[p] # Fresh =>
        \A now \in Now :
            RefreshOK(p, now) \/ AccessOK(p, now) =>
                \A q \in InFamily(fam[p]) : Row(refresh, q)

(***************************************************************************)
(* A family serves the client the owner approved, and scopes only shrink:  *)
(* every token is within the approval and the unconsumed refresh token is  *)
(* within every other one of its family.                                   *)
(***************************************************************************)
GrantIsNotExceeded ==
    /\ \A f \in Family : Row(families, f) => families[f].client = granted[f].client
    /\ \A p \in Pair : Row(refresh, p) => refresh[p].scopes \subseteq granted[fam[p]].scopes
    /\ \A p \in Pair : Row(access, p) => access[p].scopes \subseteq granted[fam[p]].scopes
    /\ \A p, q \in Pair :
         Row(refresh, p) /\ Row(refresh, q) /\ fam[p] = fam[q] /\ ~refresh[p].used
           => refresh[p].scopes \subseteq refresh[q].scopes

(***************************************************************************)
(* A client is not logged out by somebody else's request: a token that is  *)
(* good now stops being good only as time passes, by a change of the       *)
(* secret, by a revocation of its family, or (a refresh token) by its use. *)
(* In particular cleaning up and rotating never end a session.             *)
(***************************************************************************)
SessionsLast ==
    [][time' = time /\ secret' = secret =>
         \A p \in Pair : fam[p] # Fresh /\ fam[p] \notin told' =>
            /\ AccessOK(p, time) => AccessOK(p, time)'
            /\ RefreshOK(p, time) =>
                 RefreshOK(p, time)' \/ (Row(refresh, p)' /\ refresh'[p].used)]_tokenVars
=============================================================================
