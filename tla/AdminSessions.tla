---------------------------- MODULE AdminSessions ----------------------------
(***************************************************************************)
(* The admin credential: the single row of internal/store/admin.go and the *)
(* copy of it that AdminAuth of internal/api/auth.go keeps behind a lock,  *)
(* with Login and ChangePassword calls running concurrently.               *)
(*                                                                         *)
(* Comparing a password with an argon2id hash takes long and holds no      *)
(* lock, so each call is several actions: it compares against the cached   *)
(* credential, commits to the database, publishes to the cache, and mints  *)
(* a session token with whatever credential is cached by then.             *)
(***************************************************************************)
EXTENDS Integers

CONSTANTS
  Calls,       \* the RPC handlers that run at the same time
  Passwords,   \* admin passwords
  Seed,        \* the password whose hash the configuration holds
  MaxSecrets,  \* bound: JWT secrets ever generated
  Faults       \* "lost_answer": a commit is reported as an error;
               \* "delete_row": the operator deletes the row

ASSUME SessionsAssumption == Seed \in Passwords /\ MaxSecrets \in Nat

VARIABLES
  row,         \* the row of admin_credentials
  cred,        \* AdminAuth.cred, the cached copy
  up,          \* the process runs
  pc,          \* the position of each call
  next,        \* the password each ChangePassword call sets
  held,        \* the credential UpdateAdminPassword returned to each call
  tokens,      \* the secrets session tokens were signed with and handed out
  minted,      \* secrets generated so far
  retired,     \* history: secrets that were cached once and replaced
  overlapped,  \* history: a change was committed while another was unpublished
  skewed       \* history: since the boot, changes overlapped, the answer to a
               \* commit was lost, or the operator deleted the row

calls == <<pc, next, held>>
vars == <<row, cred, up, calls, tokens, minted, retired, overlapped, skewed>>

NoRow == [password |-> Seed, secret |-> 0]

Init ==
  /\ row = NoRow /\ cred = NoRow
  /\ up = FALSE
  /\ pc = [c \in Calls |-> "idle"]
  /\ next = [c \in Calls |-> Seed]
  /\ held = [c \in Calls |-> NoRow]
  /\ tokens = {} /\ minted = 0 /\ retired = {}
  /\ overlapped = FALSE /\ skewed = FALSE

\* A credential with a fresh secret from newJWTSecret.
M_NewCredential_derived(p) == [password |-> p, secret |-> IF p = Seed THEN 1 ELSE 2]
M_NewCredential_noSecret(p) == [password |-> p, secret |-> 0]
NewCredential(p) == [password |-> p, secret |-> minted + 1]

Cache(c) == /\ cred' = c
            /\ retired' = IF c = cred THEN retired ELSE retired \cup {cred.secret}

\* NewAdminAuth: load the row, seeding it when there is none.
Boot ==
  /\ ~up
  /\ up' = TRUE
  /\ \/ row # NoRow /\ UNCHANGED <<row, minted>>
     \/ row = NoRow /\ minted < MaxSecrets /\ row' = NewCredential(Seed) /\ minted' = minted + 1
  /\ Cache(row')
  /\ skewed' = FALSE
  /\ UNCHANGED <<calls, tokens, overlapped>>

\* Login compared the password with the cached hash.  (A wrong one, or the
\* rate limiter, ends the call without a trace.)
Login(c, p) ==
  /\ up /\ pc[c] = "idle"
  /\ p = cred.password
  /\ pc' = [pc EXCEPT ![c] = "mint"]
  /\ UNCHANGED <<row, cred, up, next, held, tokens, minted, retired, overlapped, skewed>>

\* ChangePassword compared the current password with the cached hash.
Change(c, current, new) ==
  /\ up /\ pc[c] = "idle"
  /\ current = cred.password
  /\ pc' = [pc EXCEPT ![c] = "update"]
  /\ next' = [next EXCEPT ![c] = new]
  /\ UNCHANGED <<row, cred, up, held, tokens, minted, retired, overlapped, skewed>>

Unpublished(c) == \E d \in Calls \ {c} : pc[d] = "publish"

\* UpdateAdminPassword: one transaction rewrites the row; its result is in
\* the hands of the call only.
Update(c) ==
  /\ pc[c] = "update"
  /\ row # NoRow
  /\ minted < MaxSecrets
  /\ row' = NewCredential(next[c])
  /\ minted' = minted + 1
  /\ held' = [held EXCEPT ![c] = row']
  /\ next' = [next EXCEPT ![c] = Seed]
  /\ pc' = [pc EXCEPT ![c] = "publish"]
  /\ overlapped' = (overlapped \/ Unpublished(c))
  /\ skewed' = (skewed \/ Unpublished(c))
  /\ UNCHANGED <<cred, up, tokens, retired>>

\* The transaction is committed but the call gets an error.
UpdateLost(c) ==
  /\ "lost_answer" \in Faults
  /\ pc[c] = "update"
  /\ row # NoRow
  /\ minted < MaxSecrets
  /\ row' = NewCredential(next[c])
  /\ minted' = minted + 1
  /\ pc' = [pc EXCEPT ![c] = "idle"]
  /\ overlapped' = (overlapped \/ Unpublished(c))
  /\ skewed' = TRUE
  /\ next' = [next EXCEPT ![c] = Seed]
  /\ UNCHANGED <<cred, up, held, tokens, retired>>

\* The transaction fails, for one because there is no row.
UpdateFails(c) ==
  /\ pc[c] = "update"
  /\ pc' = [pc EXCEPT ![c] = "idle"]
  /\ next' = [next EXCEPT ![c] = Seed]
  /\ UNCHANGED <<row, cred, up, held, tokens, minted, retired, overlapped, skewed>>

\* The cache takes the credential the call holds, under the write lock.
M_Publish_never(c) ==
  /\ pc[c] = "publish"
  /\ held' = [held EXCEPT ![c] = NoRow]
  /\ pc' = [pc EXCEPT ![c] = "mint"]
  /\ UNCHANGED <<row, cred, up, next, tokens, minted, retired, overlapped, skewed>>
Publish(c) ==
  /\ pc[c] = "publish"
  /\ Cache(held[c])
  /\ held' = [held EXCEPT ![c] = NoRow]
  /\ pc' = [pc EXCEPT ![c] = "mint"]
  /\ UNCHANGED <<row, up, next, tokens, minted, overlapped, skewed>>

\* mint: a session token signed with the secret that is cached now.
Mint(c) ==
  /\ pc[c] = "mint"
  /\ tokens' = tokens \cup {cred.secret}
  /\ pc' = [pc EXCEPT ![c] = "idle"]
  /\ UNCHANGED <<row, cred, up, next, held, minted, retired, overlapped, skewed>>

\* The process stops; its calls are gone.
Crash ==
  /\ up
  /\ up' = FALSE
  /\ pc' = [c \in Calls |-> "idle"]
  /\ next' = [c \in Calls |-> Seed]
  /\ held' = [c \in Calls |-> NoRow]
  /\ UNCHANGED <<row, cred, tokens, minted, retired, overlapped, skewed>>

\* The way back in for a locked-out operator: the row is deleted by hand.
DeleteRow ==
  /\ "delete_row" \in Faults
  /\ row' = NoRow
  /\ skewed' = TRUE
  /\ UNCHANGED <<cred, up, calls, tokens, minted, retired, overlapped>>

\* verify, as Interceptor applies it to every call but Login.
Accepted(secret) == up /\ secret = cred.secret

Step(c) ==
  \/ \E p \in Passwords : Login(c, p)
  \/ \E p, new \in Passwords : Change(c, p, new)
  \/ Update(c) \/ UpdateLost(c) \/ UpdateFails(c) \/ Publish(c) \/ Mint(c)

Next == Boot \/ Crash \/ DeleteRow \/ \E c \in Calls : Step(c)

Spec == Init /\ [][Next]_vars
==============================================================================
