---------------------------- MODULE KeyShareProofs ----------------------------
(***************************************************************************)
(* Proofs about KeyShare for any room, devices and number of sends.        *)
(***************************************************************************)
EXTENDS KeyShareProperties, TLAPS

USE KeyShareAssumption DEF KeyShareAssumption

\* What a send remembers was true when it began, and stays true enough.
Remembered ==
  /\ \A u \in Users : known[u] \subseteq DevicesOf[u]
  /\ \A s \in Senders : /\ task[s].born <= minted
                        /\ task[s].steady \subseteq live
                        /\ task[s].roster \subseteq members

\* Between its check and its message a send finds no session, one created
\* meanwhile, or one that reached a device it knows of.
StoredIsReadable ==
  \A s \in Senders : At(s, {"encrypt", "share", "reencrypt"}) /\ Stored =>
    outbound.id > task[s].born \/ outbound.reached \cap Reach(s) # {}

\* A member with a device all along has one in its list, once the send has
\* read a device in the list or queried it.
Listed(s, u) == task[s].steady \cap DevicesOf[u] # {} => known[u] \cap DevicesOf[u] # {}

ListsFilled ==
  \A s \in Senders :
    /\ At(s, {"read"}) => \A u \in task[s].roster \ task[s].todo :
                            task[s].seen \cap DevicesOf[u] # {} => Listed(s, u)
    /\ At(s, {"read"}) => \A u \in task[s].todo : task[s].seen \cap DevicesOf[u] = {}
    /\ At(s, {"reread", "discard", "encrypt", "share"}) => \A u \in task[s].roster : Listed(s, u)

\* Before the rotation only commands are answered; after it the session of
\* the room is one of this run, unless the rotation failed.
Rotated ==
  /\ since <= minted
  /\ rotating => \A s \in Senders \ Commands : At(s, {"idle"})
  /\ ~rotating /\ Stored => outbound.id > since

\* The only session with the number 0 is none.
Numbered == outbound.id = 0 => ~Stored

KeyShareInv ==
  /\ KeyShareTypeOK /\ Remembered /\ Numbered
  /\ StoredIsReadable /\ ReadableOrFresh
  /\ ListsFilled /\ NobodyOverlooked
  /\ Rotated /\ SessionsOfThisRun

LEMMA NoSessionType == NoSession \in SessionType
BY DEF NoSession, SessionType

LEMMA IdleType == Idle \in TaskType /\ Idle.pc = "idle"
BY NoSessionType DEF Idle, TaskType

\* Writing a value of its type to a local variable keeps a task's type.
LEMMA TaskFields ==
  ASSUME NEW t \in TaskType
  PROVE  /\ \A p \in {"idle", "read", "reread", "discard", "encrypt", "share", "reencrypt", "sent"} :
              [t EXCEPT !.pc = p] \in TaskType
         /\ \A us \in SUBSET Users :
              [t EXCEPT !.roster = us] \in TaskType /\ [t EXCEPT !.todo = us] \in TaskType
         /\ \A ds \in SUBSET Devices :
              /\ [t EXCEPT !.seen = ds] \in TaskType /\ [t EXCEPT !.targets = ds] \in TaskType
              /\ [t EXCEPT !.steady = ds] \in TaskType
         /\ \A o \in SessionType : [t EXCEPT !.used = o] \in TaskType
         /\ \A n \in 0..MaxSessions : [t EXCEPT !.born = n] \in TaskType
<1> HIDE DEF SessionType
<1>1. \A o \in SessionType : [t EXCEPT !.used = o] \in TaskType
  BY DEF TaskType
<1>2. \A p \in {"idle", "read", "reread", "discard", "encrypt", "share", "reencrypt", "sent"} :
         [t EXCEPT !.pc = p] \in TaskType
  BY DEF TaskType
<1>3. \A us \in SUBSET Users :
         [t EXCEPT !.roster = us] \in TaskType /\ [t EXCEPT !.todo = us] \in TaskType
  BY DEF TaskType
<1>4. \A ds \in SUBSET Devices :
         /\ [t EXCEPT !.seen = ds] \in TaskType /\ [t EXCEPT !.targets = ds] \in TaskType
         /\ [t EXCEPT !.steady = ds] \in TaskType
  BY DEF TaskType
<1>5. \A n \in 0..MaxSessions : [t EXCEPT !.born = n] \in TaskType
  BY DEF TaskType
<1> QED BY <1>1, <1>2, <1>3, <1>4, <1>5

LEMMA InitKeyShareTypes == Init => KeyShareTypeOK
<1> SUFFICES ASSUME Init PROVE KeyShareTypeOK
  OBVIOUS
<1>1. task \in [Senders -> TaskType]
  BY IdleType DEF Init
<1>2. outbound \in SessionType /\ outbound.id \in {0, minted}
  BY DEF Init, SessionType
<1> QED BY <1>1, <1>2 DEF Init, KeyShareTypeOK

\* Types survive every step.
LEMMA KeyShareTypesStep == KeyShareTypeOK /\ [Next]_vars => KeyShareTypeOK'
<1> SUFFICES ASSUME KeyShareTypeOK, [Next]_vars PROVE KeyShareTypeOK'
  OBVIOUS
<1>n. NoSession \in SessionType /\ NoSession.id = 0 /\ Idle \in TaskType
  BY NoSessionType, IdleType DEF NoSession
<1>o. \A o \in {outbound, NoSession} : o \in SessionType /\ o.id \in {0, minted}
  BY <1>n DEF KeyShareTypeOK
<1>f. \A us \in SUBSET Users : FetchKeys(us) =>
         known' \in [Users -> SUBSET Devices] /\ tracked' \subseteq Users
  BY DEF FetchKeys, KeyShareTypeOK
<1> DEFINE Shape == <<live, logins, store, session, rotating, since>>
<1>s. ASSUME UNCHANGED Shape, task' \in [Senders -> TaskType] PROVE KeyShareTypeOK'
  BY <1>s DEF Shape, store, session, KeyShareTypeOK
<1>t. \A s \in Senders : task[s] \in TaskType
  BY DEF KeyShareTypeOK
<1>u. ASSUME NEW s \in Senders, NEW t \in TaskType, task' = [task EXCEPT ![s] = t]
      PROVE  task' \in [Senders -> TaskType]
  BY <1>u DEF KeyShareTypeOK
<1> HIDE DEF Shape
<1>1. ASSUME NEW s \in Senders, Begin(s) PROVE KeyShareTypeOK'
  <2>1. /\ members \in SUBSET Users /\ live \in SUBSET Devices
        /\ minted \in 0..MaxSessions
    BY DEF KeyShareTypeOK
  <2>a. [Idle EXCEPT !.pc = "read"] \in TaskType
    BY <1>n, TaskFields
  <2>b. [Idle EXCEPT !.pc = "read", !.roster = members] \in TaskType
    BY <2>1, <2>a, TaskFields
  <2>c. [Idle EXCEPT !.pc = "read", !.roster = members, !.todo = members] \in TaskType
    BY <2>1, <2>b, TaskFields
  <2>d. [Idle EXCEPT !.pc = "read", !.roster = members, !.todo = members, !.born = minted]
          \in TaskType
    BY <2>1, <2>c, TaskFields
  <2>e. [Idle EXCEPT !.pc = "read", !.roster = members, !.todo = members, !.born = minted,
                     !.steady = live] \in TaskType
    BY <2>1, <2>d, TaskFields
  <2>2. task' \in [Senders -> TaskType]
    BY <1>1, <1>u, <2>e DEF Begin
  <2> QED BY <1>1, <1>s, <2>2 DEF Begin, Shape
<1>2. ASSUME NEW s \in Senders, NEW u \in Users, ReadDevices(s, u) PROVE KeyShareTypeOK'
  <2>r. /\ task[s].seen \cup known[u] \in SUBSET Devices
        /\ task[s].todo \ {u} \in SUBSET Users
    BY <1>t DEF TaskType, KeyShareTypeOK
  <2>a. [task[s] EXCEPT !.seen = @ \cup known[u]] \in TaskType
    BY <1>t, <2>r, TaskFields
  <2>b. [task[s] EXCEPT !.seen = @ \cup known[u]].todo = task[s].todo
    BY <1>t DEF TaskType
  <2>c. [task[s] EXCEPT !.seen = @ \cup known[u], !.todo = @ \ {u}] \in TaskType
    BY <2>r, <2>a, <2>b, TaskFields
  <2>d. task' = [task EXCEPT ![s] = [task[s] EXCEPT !.seen = @ \cup known[u], !.todo = @ \ {u}]]
    BY <1>2 DEF ReadDevices, KeyShareTypeOK
  <2>1. task' \in [Senders -> TaskType]
    BY <1>u, <2>c, <2>d
  <2> QED BY <1>2, <1>s, <2>1 DEF ReadDevices, Shape
<1>3. ASSUME NEW s \in Senders, Query(s) PROVE KeyShareTypeOK'
  <2>r. task[s].roster \in SUBSET Users
    BY <1>t DEF TaskType
  <2>a. [task[s] EXCEPT !.pc = "reread"] \in TaskType
    BY <1>t, TaskFields
  <2>b. [task[s] EXCEPT !.pc = "reread", !.todo = task[s].roster] \in TaskType
    BY <2>r, <2>a, TaskFields
  <2>c. [task[s] EXCEPT !.pc = "reread", !.todo = task[s].roster, !.seen = {}] \in TaskType
    BY <2>b, TaskFields
  <2>d. task' = [task EXCEPT ![s] = [task[s] EXCEPT !.pc = "reread", !.todo = task[s].roster,
                                                    !.seen = {}]]
    BY <1>3 DEF Query, KeyShareTypeOK
  <2>1. task' \in [Senders -> TaskType]
    BY <1>u, <2>c, <2>d
  <2>2. Missing(s) \subseteq Users
    BY <1>t DEF Missing, TaskType
  <2>3. known' \in [Users -> SUBSET Devices] /\ tracked' \subseteq Users
    BY <1>3, <1>f, <2>2 DEF Query
  <2>4. outbound' \in SessionType /\ outbound'.id \in {0, minted'} /\ minted' = minted
    BY <1>3, <1>o DEF Query, MayInvalidate
  <2> QED BY <1>3, <2>1, <2>3, <2>4 DEF Query, KeyShareTypeOK
<1>4. ASSUME NEW s \in Senders, Refuse(s) \/ End(s) PROVE KeyShareTypeOK'
  <2>1. task' \in [Senders -> TaskType]
    BY <1>4, <1>n, <1>u DEF Refuse, End, Return
  <2> QED BY <1>4, <1>s, <2>1 DEF Refuse, End, Shape
<1>5. ASSUME NEW s \in Senders, Inspect(s) \/ NoGroupSession(s) PROVE KeyShareTypeOK'
  <2>1. ASSUME NEW p \in {"discard", "encrypt", "share"}, task' = [task EXCEPT ![s].pc = p]
        PROVE  task' \in [Senders -> TaskType]
    <3>1. [task[s] EXCEPT !.pc = p] \in TaskType
      BY <1>t, TaskFields
    <3>2. task' = [task EXCEPT ![s] = [task[s] EXCEPT !.pc = p]]
      BY <2>1 DEF KeyShareTypeOK
    <3> QED BY <1>u, <3>1, <3>2
  <2>2. \E p \in {"discard", "encrypt", "share"} : task' = [task EXCEPT ![s].pc = p]
    BY <1>5 DEF Inspect, NoGroupSession, Goto
  <2>3. task' \in [Senders -> TaskType]
    BY <2>1, <2>2
  <2> QED BY <1>5, <1>s, <2>3 DEF Inspect, NoGroupSession, Shape
<1>6. ASSUME NEW s \in Senders, Discard(s) PROVE KeyShareTypeOK'
  <2>a. [task[s] EXCEPT !.pc = "encrypt"] \in TaskType
    BY <1>t, TaskFields
  <2>b. task' = [task EXCEPT ![s] = [task[s] EXCEPT !.pc = "encrypt"]]
    BY <1>6 DEF Discard, Goto, KeyShareTypeOK
  <2>1. task' \in [Senders -> TaskType]
    BY <1>u, <2>a, <2>b
  <2> QED BY <1>6, <1>n, <2>1 DEF Discard, store, KeyShareTypeOK
<1>7. ASSUME NEW s \in Senders, Encrypt(s) PROVE KeyShareTypeOK'
  <2>a. [task[s] EXCEPT !.pc = "sent"] \in TaskType
    BY <1>t, TaskFields
  <2>b. [task[s] EXCEPT !.pc = "sent", !.used = outbound] \in TaskType
    BY <1>o, <2>a, TaskFields
  <2>c. [task[s] EXCEPT !.pc = "sent", !.used = outbound, !.targets = {}] \in TaskType
    BY <2>b, TaskFields
  <2>d. task' = [task EXCEPT ![s] = [task[s] EXCEPT !.pc = "sent", !.used = outbound,
                                                    !.targets = {}]]
    BY <1>7 DEF Encrypt, KeyShareTypeOK
  <2>1. task' \in [Senders -> TaskType]
    BY <1>u, <2>c, <2>d
  <2> QED BY <1>7, <1>s, <2>1 DEF Encrypt, Shape
<1>8. ASSUME NEW s \in Senders, Share(s) PROVE KeyShareTypeOK'
  <2>1. known' \in [Users -> SUBSET Devices] /\ tracked' \subseteq Users
    BY <1>8, <1>f DEF Share, KeyShareTypeOK
  <2> DEFINE lists == UNION {known'[u] : u \in members}
  <2>2. lists \subseteq Devices
    BY <2>1 DEF KeyShareTypeOK
  <2>3. /\ \E R \in SUBSET (lists \ {Own}) : outbound' = NewSession(R)
        /\ task' = [task EXCEPT ![s].pc = "reencrypt", ![s].targets = lists]
    BY <1>8 DEF Share
  <2> HIDE DEF lists
  <2>4. minted' = minted + 1 /\ minted' \in 1..MaxSessions
    BY <1>8 DEF Share, KeyShareTypeOK
  <2>5. outbound' \in SessionType /\ outbound'.id = minted'
    BY <2>2, <2>3, <2>4 DEF NewSession, SessionType, KeyShareTypeOK
  <2>a. [task[s] EXCEPT !.pc = "reencrypt"] \in TaskType
    BY <1>t, TaskFields
  <2>b. [task[s] EXCEPT !.pc = "reencrypt", !.targets = lists] \in TaskType
    BY <2>2, <2>a, TaskFields
  <2>c. task' = [task EXCEPT ![s] = [task[s] EXCEPT !.pc = "reencrypt", !.targets = lists]]
    BY <2>3 DEF KeyShareTypeOK
  <2>6. task' \in [Senders -> TaskType]
    BY <1>u, <2>b, <2>c
  <2> QED BY <1>8, <2>1, <2>4, <2>5, <2>6 DEF Share, KeyShareTypeOK
<1>9. ASSUME NEW d \in Devices, Login(d) PROVE KeyShareTypeOK'
  BY <1>9 DEF Login, store, session, KeyShareTypeOK
<1>10. ASSUME NEW d \in Devices, Logout(d) PROVE KeyShareTypeOK'
  <2>1. task' \in [Senders -> TaskType]
    BY <1>10, <1>t DEF Logout, TaskType
  <2> QED BY <1>10, <2>1 DEF Logout, store, session, KeyShareTypeOK
<1>11. ASSUME NEW u \in Users, SyncDevices(u) PROVE KeyShareTypeOK'
  <2>1. outbound' \in SessionType /\ outbound'.id \in {0, minted'} /\ minted' = minted
    BY <1>11, <1>o DEF SyncDevices, MayInvalidate
  <2> QED BY <1>11, <2>1 DEF SyncDevices, KeyShareTypeOK
<1>12. ASSUME NEW u \in Users, SyncMember(u) PROVE KeyShareTypeOK'
  BY <1>12 DEF SyncMember, session, KeyShareTypeOK
<1>13. CASE LoseSession
  BY <1>13, <1>n DEF LoseSession, store, KeyShareTypeOK
<1>14. CASE Restart
  BY <1>14, <1>n DEF Restart, store, session, KeyShareTypeOK
<1>15. CASE Rotate
  <2>1. outbound' \in SessionType /\ outbound'.id \in {0, minted'} /\ minted' = minted
    BY <1>15, <1>o DEF Rotate
  <2>2. since' \in 0..MaxSessions
    BY <1>15 DEF Rotate, KeyShareTypeOK
  <2>3. rotating' \in BOOLEAN
    BY <1>15 DEF Rotate
  <2> QED BY <1>15, <2>1, <2>2, <2>3 DEF Rotate, store, KeyShareTypeOK
<1>16. CASE UNCHANGED vars
  BY <1>16 DEF vars, store, session, KeyShareTypeOK, SessionType, TaskType
<1> QED BY <1>1, <1>2, <1>3, <1>4, <1>5, <1>6, <1>7, <1>8, <1>9, <1>10, <1>11, <1>12,
           <1>13, <1>14, <1>15, <1>16 DEF Next, Environment, Send

\* The steps in the middle of a send leave what it began with.
LEMMA BirthKept ==
  ASSUME KeyShareTypeOK, NEW s \in Senders,
         \/ Query(s) \/ Inspect(s) \/ Discard(s) \/ Encrypt(s) \/ NoGroupSession(s)
         \/ Share(s) \/ \E u \in Users : ReadDevices(s, u)
  PROVE  \A d \in Senders : /\ task'[d].born = task[d].born
                            /\ task'[d].roster = task[d].roster
                            /\ task'[d].steady = task[d].steady
<1>t. task \in [Senders -> TaskType]
  BY DEF KeyShareTypeOK
<1>1. CASE Query(s)
  BY <1>1, <1>t DEF Query, TaskType
<1>2. CASE Inspect(s)
  BY <1>2, <1>t DEF Inspect, Goto, TaskType
<1>3. CASE Discard(s)
  BY <1>3, <1>t DEF Discard, Goto, TaskType
<1>4. CASE Encrypt(s)
  BY <1>4, <1>t DEF Encrypt, TaskType
<1>5. CASE NoGroupSession(s)
  BY <1>5, <1>t DEF NoGroupSession, Goto, TaskType
<1>6. CASE Share(s)
  <2>1. PICK lists : task' = [task EXCEPT ![s].pc = "reencrypt", ![s].targets = lists]
    BY <1>6 DEF Share
  <2> QED BY <2>1, <1>t DEF TaskType
<1>7. CASE \E u \in Users : ReadDevices(s, u)
  <2>1. PICK u \in Users : ReadDevices(s, u)
    BY <1>7
  <2>2. \A d \in Senders \ {s} : task'[d] = task[d]
    BY <2>1, <1>t DEF ReadDevices
  <2>3. task'[s] = [task[s] EXCEPT !.seen = @ \cup known[u], !.todo = @ \ {u}]
    BY <2>1, <1>t DEF ReadDevices
  <2>4. /\ task'[s].born = task[s].born /\ task'[s].roster = task[s].roster
        /\ task'[s].steady = task[s].steady
    BY <2>3, <1>t DEF TaskType
  <2> QED BY <2>2, <2>4
<1> QED BY <1>1, <1>2, <1>3, <1>4, <1>5, <1>6, <1>7

\* A query leaves every list as it was or as the homeserver has it.
LEMMA FetchedKeys ==
  ASSUME KeyShareTypeOK, NEW us, FetchKeys(us)
  PROVE  \A u \in Users : known'[u] = IF u \in us THEN live \cap DevicesOf[u] ELSE known[u]
BY DEF FetchKeys, KeyShareTypeOK

\* The device lists change towards what the homeserver has, and no device
\* that was logged in since a send began is lost on the way.
LEMMA ListsMove ==
  KeyShareTypeOK /\ [Next]_vars =>
    \A u \in Users : known'[u] = known[u] \/ (known'[u] = live \cap DevicesOf[u] /\ live' = live)
<1> SUFFICES ASSUME KeyShareTypeOK, [Next]_vars, NEW u \in Users
             PROVE  known'[u] = known[u] \/ (known'[u] = live \cap DevicesOf[u] /\ live' = live)
  OBVIOUS
<1>1. ASSUME NEW s \in Senders, Query(s) PROVE
        known'[u] = known[u] \/ (known'[u] = live \cap DevicesOf[u] /\ live' = live)
  BY <1>1, FetchedKeys DEF Query
<1>2. ASSUME NEW s \in Senders, Share(s) PROVE
        known'[u] = known[u] \/ (known'[u] = live \cap DevicesOf[u] /\ live' = live)
  BY <1>2, FetchedKeys DEF Share
<1>3. ASSUME NEW v \in Users, SyncDevices(v) PROVE
        known'[u] = known[u] \/ (known'[u] = live \cap DevicesOf[u] /\ live' = live)
  BY <1>3 DEF SyncDevices, KeyShareTypeOK
<1>4. ASSUME NEW s \in Senders,
             \/ Begin(s) \/ Refuse(s) \/ Inspect(s) \/ Discard(s) \/ Encrypt(s)
             \/ NoGroupSession(s) \/ End(s) \/ \E v \in Users : ReadDevices(s, v)
      PROVE  known' = known
  BY <1>4 DEF Begin, ReadDevices, Refuse, Inspect, Discard, Encrypt, NoGroupSession, End, store
<1>5. CASE \/ \E d \in Devices : Login(d) \/ Logout(d)
           \/ \E v \in Users : SyncMember(v)
           \/ LoseSession \/ Restart \/ Rotate \/ UNCHANGED vars
  <2>1. known' = known
    BY <1>5 DEF Login, Logout, SyncMember, LoseSession, Restart, Rotate, vars, store
  <2> QED BY <2>1
<1>6. ASSUME NEW s \in Senders, Send(s)
      PROVE  known'[u] = known[u] \/ (known'[u] = live \cap DevicesOf[u] /\ live' = live)
  BY <1>1, <1>2, <1>4, <1>6 DEF Send
<1> QED BY <1>3, <1>5, <1>6 DEF Next, Environment

\* The numbers, the members and the devices a send began with stay within
\* what there is.
LEMMA RememberedStep == KeyShareTypeOK /\ Remembered /\ [Next]_vars => Remembered'
<1> SUFFICES ASSUME KeyShareTypeOK, Remembered, [Next]_vars PROVE Remembered'
  OBVIOUS
<1>k. \A u \in Users : known'[u] \subseteq DevicesOf[u]
  BY ListsMove DEF Remembered
<1>t. task \in [Senders -> TaskType] /\ minted \in Nat
  BY DEF KeyShareTypeOK
<1> DEFINE Within(s) == /\ task'[s].born <= minted'
                        /\ task'[s].steady \subseteq live'
                        /\ task'[s].roster \subseteq members'
<1>i. \A s \in Senders : /\ task[s].born <= minted
                         /\ task[s].steady \subseteq live
                         /\ task[s].roster \subseteq members
                         /\ task[s].born \in Nat
  BY <1>t DEF Remembered, TaskType
<1>z. Idle.born = 0 /\ Idle.steady = {} /\ Idle.roster = {}
  BY DEF Idle
<1>1. ASSUME NEW s \in Senders,
             \/ Query(s) \/ Inspect(s) \/ Discard(s) \/ Encrypt(s) \/ NoGroupSession(s)
             \/ Share(s) \/ \E u \in Users : ReadDevices(s, u)
      PROVE  \A d \in Senders : Within(d)
  <2>1. /\ live' = live /\ members' = members
        /\ minted' = minted \/ minted' = minted + 1
    BY <1>1 DEF Query, MayInvalidate, Inspect, Discard, Encrypt, NoGroupSession, Share,
                ReadDevices, store, session
  <2> QED BY <1>1, <2>1, <1>i, <1>t, BirthKept
<1>2. ASSUME NEW s \in Senders, Begin(s) PROVE \A d \in Senders : Within(d)
  <2>1. /\ task'[s].born = minted /\ task'[s].steady = live /\ task'[s].roster = members
        /\ \A d \in Senders \ {s} : task'[d] = task[d]
    BY <1>2, <1>t DEF Begin, Idle
  <2> QED BY <1>2, <2>1, <1>i, <1>t DEF Begin, store, session
<1>3. ASSUME NEW s \in Senders, Refuse(s) \/ End(s) PROVE \A d \in Senders : Within(d)
  <2>1. task'[s] = Idle /\ \A d \in Senders \ {s} : task'[d] = task[d]
    BY <1>3, <1>t DEF Refuse, End, Return
  <2> QED BY <1>3, <2>1, <1>i, <1>t, <1>z DEF Refuse, End, store, session
<1>4. ASSUME Restart PROVE \A s \in Senders : Within(s)
  <2>1. \A s \in Senders : task'[s] = Idle
    BY <1>4 DEF Restart
  <2> QED BY <1>4, <2>1, <1>t, <1>z DEF Restart, store, session
<1>5. ASSUME NEW d \in Devices, Logout(d) PROVE \A s \in Senders : Within(s)
  <2>1. \A s \in Senders : /\ task'[s].born = task[s].born /\ task'[s].roster = task[s].roster
                           /\ task'[s].steady = task[s].steady \ {d}
    BY <1>5, <1>t DEF Logout, TaskType
  <2> QED BY <1>5, <2>1, <1>i DEF Logout, store, session
<1>6. ASSUME \/ \E d \in Devices : Login(d)
             \/ \E u \in Users : SyncDevices(u) \/ SyncMember(u)
             \/ LoseSession \/ Rotate
      PROVE  \A s \in Senders : Within(s)
  <2>1. task' = task /\ live \subseteq live' /\ members \subseteq members' /\ minted' = minted
    BY <1>6 DEF Login, SyncDevices, SyncMember, MayInvalidate, LoseSession, Rotate, store, session
  <2> QED BY <2>1, <1>i
<1>7. ASSUME UNCHANGED vars PROVE \A s \in Senders : Within(s)
  BY <1>7, <1>i DEF vars, store, session
<1>8. \A s \in Senders : Within(s)
  <2> HIDE DEF Within
  <2> QED BY <1>1, <1>2, <1>3, <1>4, <1>5, <1>6, <1>7 DEF Next, Environment, Send
<1> QED BY <1>k, <1>8 DEF Remembered

\* A step moves one send, or it moves none but for a device that logs out.
LEMMA OthersStay ==
  ASSUME KeyShareTypeOK, NEW s \in Senders, Send(s)
  PROVE  \A d \in Senders \ {s} : task'[d] = task[d]
<1>t. task \in [Senders -> TaskType]
  BY DEF KeyShareTypeOK
<1>1. CASE Begin(s) \/ Query(s) \/ Refuse(s) \/ End(s)
  BY <1>1, <1>t DEF Begin, Query, Refuse, End, Return
<1>2. CASE Inspect(s) \/ Discard(s) \/ Encrypt(s) \/ NoGroupSession(s)
  BY <1>2, <1>t DEF Inspect, Discard, Encrypt, NoGroupSession, Goto
<1>3. CASE Share(s)
  BY <1>3, <1>t DEF Share
<1>4. CASE \E u \in Users : ReadDevices(s, u)
  BY <1>4, <1>t DEF ReadDevices
<1> QED BY <1>1, <1>2, <1>3, <1>4 DEF Send

\* Where a send can go, and what it takes along.
LEMMA SendMoves ==
  ASSUME KeyShareTypeOK, NEW s \in Senders, Send(s)
  PROVE  \/ task'[s] = Idle
         \/ Begin(s) /\ task'[s].pc = "read" /\ task'[s].todo = task'[s].roster
         \/ /\ \E u \in Users : ReadDevices(s, u)
            /\ task'[s].pc = task[s].pc
         \/ Query(s) /\ task'[s].pc = "reread"
         \/ /\ Inspect(s) \/ Discard(s) \/ NoGroupSession(s)
            /\ task'[s].pc \in {"discard", "encrypt", "share"}
            /\ task'[s].seen = task[s].seen
         \/ /\ Encrypt(s) /\ task'[s].pc = "sent"
            /\ task'[s].used = outbound /\ task'[s].seen = task[s].seen
         \/ /\ Share(s) /\ task'[s].pc = "reencrypt" /\ task'[s].seen = task[s].seen
<1>t. task \in [Senders -> TaskType]
  BY DEF KeyShareTypeOK
<1>1. CASE Refuse(s) \/ End(s)
  BY <1>1, <1>t DEF Refuse, End, Return
<1>2. CASE Begin(s)
  BY <1>2, <1>t DEF Begin, Idle
<1>3. CASE \E u \in Users : ReadDevices(s, u)
  <2>1. PICK u \in Users : ReadDevices(s, u)
    BY <1>3
  <2>2. task'[s] = [task[s] EXCEPT !.seen = @ \cup known[u], !.todo = @ \ {u}]
    BY <2>1, <1>t DEF ReadDevices
  <2> QED BY <1>3, <2>2, <1>t DEF TaskType
<1>4. CASE Query(s)
  BY <1>4, <1>t DEF Query, TaskType
<1>5. CASE Inspect(s)
  BY <1>5, <1>t DEF Inspect, Goto, TaskType
<1>6. CASE Discard(s)
  BY <1>6, <1>t DEF Discard, Goto, TaskType
<1>7. CASE NoGroupSession(s)
  BY <1>7, <1>t DEF NoGroupSession, Goto, TaskType
<1>8. CASE Encrypt(s)
  BY <1>8, <1>t DEF Encrypt, TaskType
<1>9. CASE Share(s)
  <2>1. PICK lists : task' = [task EXCEPT ![s].pc = "reencrypt", ![s].targets = lists]
    BY <1>9 DEF Share
  <2> QED BY <1>9, <2>1, <1>t DEF TaskType
<1> QED BY <1>1, <1>2, <1>3, <1>4, <1>5, <1>6, <1>7, <1>8, <1>9 DEF Send

\* The room's session stays, goes, or makes room for a new one.
LEMMA SessionMoves ==
  [Next]_vars => \/ outbound' = outbound /\ minted' = minted
                 \/ outbound' = NoSession /\ minted' = minted
                 \/ /\ ~Stored /\ minted' = minted + 1 /\ outbound'.id = minted + 1
                    /\ \E s \in Senders : Share(s)
<1> SUFFICES ASSUME [Next]_vars
             PROVE  \/ outbound' = outbound /\ minted' = minted
                    \/ outbound' = NoSession /\ minted' = minted
                    \/ /\ ~Stored /\ minted' = minted + 1 /\ outbound'.id = minted + 1
                       /\ \E s \in Senders : Share(s)
  OBVIOUS
<1>1. ASSUME NEW s \in Senders, Share(s)
      PROVE  ~Stored /\ minted' = minted + 1 /\ outbound'.id = minted + 1
  BY <1>1 DEF Share, NewSession
<1>2. ASSUME NEW s \in Senders, Send(s), ~Share(s)
      PROVE  outbound' \in {outbound, NoSession} /\ minted' = minted
  BY <1>2 DEF Send, Begin, ReadDevices, Query, MayInvalidate, Refuse, Inspect, Discard,
              Encrypt, NoGroupSession, End, session
<1>3. ASSUME Environment \/ Restart \/ Rotate
      PROVE  outbound' \in {outbound, NoSession} /\ minted' = minted
  BY <1>3 DEF Environment, Login, Logout, SyncDevices, MayInvalidate, SyncMember, LoseSession,
              Restart, Rotate, session
<1>4. ASSUME UNCHANGED vars PROVE outbound' = outbound /\ minted' = minted
  BY <1>4 DEF vars, session
<1> QED BY <1>1, <1>2, <1>3, <1>4 DEF Next

\* What does not move a send leaves it alone, but for the devices that were
\* logged in all along.
LEMMA StaysPut ==
  ASSUME KeyShareTypeOK, NEW s \in Senders,
         \/ \E d \in Senders \ {s} : Send(d)
         \/ Environment \/ Rotate \/ UNCHANGED vars
  PROVE  /\ task'[s].pc = task[s].pc /\ task'[s].seen = task[s].seen
         /\ task'[s].used = task[s].used /\ task'[s].born = task[s].born
         /\ task'[s].roster = task[s].roster /\ task'[s].todo = task[s].todo
         /\ task'[s].targets = task[s].targets /\ task'[s].steady \subseteq task[s].steady
<1>t. task \in [Senders -> TaskType]
  BY DEF KeyShareTypeOK
<1>1. CASE \E d \in Senders \ {s} : Send(d)
  BY <1>1, OthersStay
<1>2. CASE \E d \in Devices : Logout(d)
  BY <1>2, <1>t DEF Logout, TaskType
<1>3. CASE \/ Environment /\ ~\E d \in Devices : Logout(d)
           \/ Rotate \/ UNCHANGED vars
  <2>1. task' = task
    BY <1>3 DEF Environment, Login, SyncDevices, SyncMember, LoseSession, Rotate, vars
  <2> QED BY <2>1
<1> QED BY <1>1, <1>2, <1>3

\* A restart forgets every send.
LEMMA RestartForgets == ASSUME Restart, NEW s \in Senders PROVE task'[s] = Idle
BY DEF Restart

\* A send never takes up a session it could have known to be unreadable.
LEMMA ReadableStep ==
  KeyShareTypeOK /\ Remembered /\ StoredIsReadable /\ ReadableOrFresh /\ [Next]_vars
    => StoredIsReadable' /\ ReadableOrFresh'
<1> SUFFICES ASSUME KeyShareTypeOK, Remembered, StoredIsReadable, ReadableOrFresh, [Next]_vars,
                    NEW s \in Senders
             PROVE  /\ At(s, {"encrypt", "share", "reencrypt"})' /\ Stored' =>
                         outbound'.id > task'[s].born \/ outbound'.reached \cap Reach(s)' # {}
                    /\ At(s, {"sent"})' =>
                         \/ task'[s].used.id > task'[s].born
                         \/ task'[s].used.reached \cap Reach(s)' # {}
  BY DEF StoredIsReadable, ReadableOrFresh
<1>m. minted \in Nat /\ task[s].born \in Nat /\ task[s].born <= minted
  BY DEF KeyShareTypeOK, Remembered, TaskType
<1>i. Idle.pc = "idle"
  BY IdleType
<1>1. CASE Restart
  BY <1>1, <1>i, RestartForgets DEF At
<1>2. CASE \/ \E d \in Senders \ {s} : Send(d)
           \/ Environment \/ Rotate \/ UNCHANGED vars
  <2>1. /\ task'[s].pc = task[s].pc /\ task'[s].seen = task[s].seen
        /\ task'[s].used = task[s].used /\ task'[s].born = task[s].born
    BY <1>2, StaysPut
  <2>2. At(s, {"sent"})' => \/ task'[s].used.id > task'[s].born
                            \/ task'[s].used.reached \cap Reach(s)' # {}
    BY <2>1 DEF ReadableOrFresh, At, Reach
  <2>3. CASE outbound' = outbound
    BY <2>1, <2>2, <2>3 DEF StoredIsReadable, At, Reach, Stored
  <2>4. CASE outbound' = NoSession
    BY <2>2, <2>4 DEF Stored
  <2>5. CASE outbound'.id = minted + 1
    BY <2>1, <2>2, <2>5, <1>m
  <2> QED BY <2>3, <2>4, <2>5, SessionMoves
<1>3. CASE Send(s)
  <2>1. CASE task'[s] = Idle \/ task'[s].pc \in {"read", "reread", "discard"}
    BY <2>1, <1>i DEF At
  <2>2. CASE Inspect(s) /\ task'[s].pc # "discard"
    <3>1. outbound' = outbound /\ task'[s].seen = task[s].seen /\ task'[s].pc = "encrypt"
      BY <2>2 DEF Inspect, Goto, session, KeyShareTypeOK, TaskType
    <3>2. ~Poisoned(s)
      BY <2>2 DEF Inspect, Goto, KeyShareTypeOK, TaskType
    <3> QED BY <3>1, <3>2 DEF Poisoned, Stored, At, Reach
  <2>3. CASE Discard(s)
    <3>1. ~Stored' /\ task'[s].pc = "encrypt"
      BY <2>3 DEF Discard, Goto, Stored, KeyShareTypeOK, TaskType
    <3> QED BY <3>1 DEF At
  <2>4. CASE NoGroupSession(s)
    <3>1. ~Stored' /\ task'[s].pc = "share"
      BY <2>4 DEF NoGroupSession, Goto, Stored, session, KeyShareTypeOK, TaskType
    <3> QED BY <3>1 DEF At
  <2>5. CASE Encrypt(s)
    <3>a. task'[s].born = task[s].born
      BY <2>5, BirthKept
    <3>b. /\ task'[s].pc = "sent" /\ task'[s].used = outbound
          /\ task'[s].seen = task[s].seen
      BY <2>5 DEF Encrypt, KeyShareTypeOK, TaskType
    <3>1. /\ task'[s].pc = "sent" /\ task'[s].used = outbound
          /\ task'[s].seen = task[s].seen /\ task'[s].born = task[s].born
      BY <3>a, <3>b
    <3>2. outbound.id > task[s].born \/ outbound.reached \cap Reach(s) # {}
      BY <2>5 DEF Encrypt, StoredIsReadable, At
    <3> QED BY <3>1, <3>2 DEF At, Reach
  <2>6. CASE Share(s)
    <3>a. task'[s].born = task[s].born
      BY <2>6, BirthKept
    <3>b. PICK lists : task' = [task EXCEPT ![s].pc = "reencrypt", ![s].targets = lists]
      BY <2>6 DEF Share
    <3>c. task'[s].pc = "reencrypt"
      BY <3>b DEF KeyShareTypeOK, TaskType
    <3>1. task'[s].pc = "reencrypt" /\ task'[s].born = task[s].born
      BY <3>a, <3>c
    <3>2. outbound'.id = minted + 1
      BY <2>6 DEF Share, NewSession
    <3> QED BY <3>1, <3>2, <1>m DEF At
  <2> QED BY <1>3, <2>1, <2>2, <2>3, <2>4, <2>5, <2>6, SendMoves DEF ReadDevices, At
<1> QED BY <1>1, <1>2, <1>3 DEF Next

\* The number 0 stays without a session.
LEMMA NumberedStep == KeyShareTypeOK /\ Numbered /\ [Next]_vars => Numbered'
<1> SUFFICES ASSUME KeyShareTypeOK, Numbered, [Next]_vars PROVE Numbered'
  OBVIOUS
<1>1. minted \in Nat
  BY DEF KeyShareTypeOK
<1> QED BY <1>1, SessionMoves DEF Numbered, Stored

\* The rotation leaves no session of an earlier run to anyone but a command.
LEMMA RotatedStep ==
  KeyShareTypeOK /\ Numbered /\ Rotated /\ SessionsOfThisRun /\ [Next]_vars
    => Rotated' /\ SessionsOfThisRun'
<1> SUFFICES ASSUME KeyShareTypeOK, Numbered, Rotated, SessionsOfThisRun, [Next]_vars
             PROVE  Rotated' /\ SessionsOfThisRun'
  OBVIOUS
<1>m. minted \in Nat /\ since \in Nat /\ since <= minted
  BY DEF KeyShareTypeOK, Rotated
<1>o. outbound.id \in Nat /\ (Stored => outbound.id > 0)
  BY DEF KeyShareTypeOK, SessionType, Numbered
<1>i. Idle.pc = "idle"
  BY IdleType
<1>1. CASE Restart
  BY <1>1, <1>i, <1>m, RestartForgets DEF Restart, Rotated, SessionsOfThisRun, At, session
<1>2. CASE Rotate
  <2>1. ~rotating' /\ minted' = minted /\ \A s \in Senders \ Commands : task'[s].pc = "idle"
    BY <1>2 DEF Rotate, Rotated, At
  <2>2. since' <= minted' /\ (Stored' => outbound'.id > since')
    BY <1>2, <1>m, <1>o DEF Rotate, Stored
  <2> QED BY <2>1, <2>2 DEF Rotated, SessionsOfThisRun, At
<1>3. CASE Environment \/ UNCHANGED vars \/ \E s \in Senders : Send(s)
  <2>1. rotating' = rotating /\ since' = since
    BY <1>3 DEF Environment, Login, Logout, SyncDevices, SyncMember, LoseSession, vars, Send,
                Begin, ReadDevices, Query, Refuse, Inspect, Discard, Encrypt, NoGroupSession,
                Share, End
  <2>2. since' <= minted' /\ (~rotating' /\ Stored' => outbound'.id > since')
    BY <2>1, <1>m, SessionMoves DEF Rotated, Stored
  <2>3. ASSUME NEW s \in Senders \ Commands
        PROVE  /\ rotating' => At(s, {"idle"})'
               /\ ~rotating' /\ At(s, {"sent"})' => task'[s].used.id > since'
    <3>1. CASE Environment \/ UNCHANGED vars \/ \E d \in Senders \ {s} : Send(d)
      <4>1. task'[s].pc = task[s].pc /\ task'[s].used = task[s].used
        BY <3>1, StaysPut
      <4> QED BY <2>1, <4>1 DEF Rotated, SessionsOfThisRun, At
    <3>2. CASE Send(s)
      <4>1. CASE rotating
        <5>1. task[s].pc = "idle"
          BY <4>1 DEF Rotated, At
        <5>2. FALSE
          BY <3>2, <4>1, <5>1 DEF Send, At, Begin, Query, Refuse, Resolved, Inspect, Discard,
                                  Encrypt, NoGroupSession, Share, End, ReadDevices
        <5> QED BY <5>2
      <4>2. CASE ~rotating /\ Encrypt(s)
        <5>1. task'[s].used = outbound
          BY <4>2 DEF Encrypt, KeyShareTypeOK, TaskType
        <5>2. outbound.id > since
          BY <4>2 DEF Encrypt, Rotated
        <5> QED BY <2>1, <4>2, <5>1, <5>2
      <4>3. CASE ~rotating /\ ~Encrypt(s)
        <5>1. ~At(s, {"sent"})'
          BY <3>2, <4>3, <1>i, SendMoves DEF At, ReadDevices
        <5> QED BY <2>1, <4>3, <5>1
      <4> QED BY <4>1, <4>2, <4>3
    <3> QED BY <1>3, <3>1, <3>2
  <2> QED BY <2>1, <2>2, <2>3 DEF Rotated, SessionsOfThisRun
<1> QED BY <1>1, <1>2, <1>3 DEF Next

\* A list that has what it should keeps it.
LEMMA ListedStays ==
  ASSUME KeyShareTypeOK, Remembered, [Next]_vars, NEW s \in Senders, NEW u \in Users,
         task'[s].steady \subseteq task[s].steady, Listed(s, u)
  PROVE  Listed(s, u)'
<1>1. task[s].steady \subseteq live
  BY DEF Remembered
<1> QED BY <1>1, ListsMove DEF Listed

\* By the time a session is shared, every list that could be filled is.
LEMMA FilledStep ==
  KeyShareTypeOK /\ Remembered /\ ListsFilled /\ NobodyOverlooked /\ [Next]_vars
    => ListsFilled' /\ NobodyOverlooked'
<1> SUFFICES ASSUME KeyShareTypeOK, Remembered, ListsFilled, NobodyOverlooked, [Next]_vars,
                    NEW s \in Senders
             PROVE  /\ task'[s].pc = "read" =>
                         /\ \A u \in task'[s].roster \ task'[s].todo :
                               task'[s].seen \cap DevicesOf[u] # {} => Listed(s, u)'
                         /\ \A u \in task'[s].todo : task'[s].seen \cap DevicesOf[u] = {}
                    /\ task'[s].pc \in {"reread", "discard", "encrypt", "share"} =>
                         \A u \in task'[s].roster : Listed(s, u)'
                    /\ task'[s].pc = "reencrypt" =>
                         \A u \in task'[s].roster : task'[s].steady \cap DevicesOf[u] # {}
                                                   => task'[s].targets \cap DevicesOf[u] # {}
  BY DEF ListsFilled, NobodyOverlooked, At
<1>t. /\ task \in [Senders -> TaskType] /\ task[s] \in TaskType
      /\ task[s].roster \subseteq Users /\ task[s].todo \subseteq Users
  BY DEF KeyShareTypeOK, TaskType
<1>i. /\ task[s].pc = "read" =>
           /\ \A u \in task[s].roster \ task[s].todo :
                 task[s].seen \cap DevicesOf[u] # {} => Listed(s, u)
           /\ \A u \in task[s].todo : task[s].seen \cap DevicesOf[u] = {}
      /\ task[s].pc \in {"reread", "discard", "encrypt", "share"} =>
           \A u \in task[s].roster : Listed(s, u)
      /\ task[s].pc = "reencrypt" =>
           \A u \in task[s].roster : task[s].steady \cap DevicesOf[u] # {}
                                    => task[s].targets \cap DevicesOf[u] # {}
  BY DEF ListsFilled, NobodyOverlooked, At
<1>k. ASSUME task'[s].steady \subseteq task[s].steady
      PROVE  \A u \in Users : Listed(s, u) => Listed(s, u)'
  BY <1>k, ListedStays
<1>n. Idle.pc = "idle"
  BY IdleType
<1> HIDE DEF Listed
<1>1. CASE Restart
  BY <1>1, <1>n, RestartForgets
<1>2. CASE \/ \E d \in Senders \ {s} : Send(d)
           \/ Environment \/ Rotate \/ UNCHANGED vars
  <2>1. /\ task'[s].pc = task[s].pc /\ task'[s].seen = task[s].seen
        /\ task'[s].roster = task[s].roster /\ task'[s].todo = task[s].todo
        /\ task'[s].targets = task[s].targets /\ task'[s].steady \subseteq task[s].steady
    BY <1>2, StaysPut
  <2>2. \A u \in Users : Listed(s, u) => Listed(s, u)'
    BY <1>k, <2>1
  <2> QED BY <1>i, <1>t, <2>1, <2>2
<1>3. CASE Send(s)
  <2>1. CASE task'[s] = Idle \/ task'[s].pc = "sent"
    BY <2>1, <1>n
  <2>2. CASE Begin(s)
    <3>1. /\ task'[s].pc = "read" /\ task'[s].todo = task'[s].roster /\ task'[s].seen = {}
      BY <2>2, <1>t DEF Begin, Idle
    <3> QED BY <3>1
  <2>3. ASSUME NEW u \in Users, ReadDevices(s, u)
        PROVE  /\ task'[s].pc = "read" =>
                    /\ \A v \in task'[s].roster \ task'[s].todo :
                          task'[s].seen \cap DevicesOf[v] # {} => Listed(s, v)'
                    /\ \A v \in task'[s].todo : task'[s].seen \cap DevicesOf[v] = {}
               /\ task'[s].pc \in {"reread", "discard", "encrypt", "share"} =>
                    \A v \in task'[s].roster : Listed(s, v)'
               /\ task'[s].pc # "reencrypt"
    <3>1. task'[s] = [task[s] EXCEPT !.seen = @ \cup known[u], !.todo = @ \ {u}]
      BY <2>3, <1>t DEF ReadDevices
    <3>2. /\ task'[s].pc = task[s].pc /\ task[s].pc \in {"read", "reread"}
          /\ task'[s].seen = task[s].seen \cup known[u]
          /\ task'[s].todo = task[s].todo \ {u} /\ task'[s].roster = task[s].roster
          /\ task'[s].steady = task[s].steady /\ u \in task[s].todo
      BY <2>3, <3>1, <1>t DEF ReadDevices, At, TaskType
    <3>3. known[u] \subseteq DevicesOf[u]
      BY DEF Remembered
    <3>4. \A v \in Users \ {u} : task'[s].seen \cap DevicesOf[v] = task[s].seen \cap DevicesOf[v]
      BY <3>2, <3>3
    <3>5. \A v \in Users : Listed(s, v) => Listed(s, v)'
      BY <1>k, <3>2
    <3>6. task[s].pc = "read" /\ task'[s].seen \cap DevicesOf[u] # {} => Listed(s, u)
      BY <1>i, <3>2, <3>3 DEF Listed
    <3> QED BY <1>i, <1>t, <3>2, <3>4, <3>5, <3>6
  <2>4. CASE Query(s)
    <3>1. /\ task'[s].pc = "reread" /\ task'[s].roster = task[s].roster
          /\ task'[s].steady = task[s].steady /\ task[s].pc = "read" /\ task[s].todo = {}
      BY <2>4, <1>t DEF Query, At, TaskType
    <3>2. ASSUME NEW u \in Missing(s) PROVE Listed(s, u)'
      <4>1. u \in Users
        BY <1>t DEF Missing
      <4>2. known'[u] = live \cap DevicesOf[u]
        BY <2>4, <4>1, FetchedKeys DEF Query
      <4>3. task[s].steady \subseteq live
        BY DEF Remembered
      <4> QED BY <3>1, <4>2, <4>3 DEF Listed
    <3>3. ASSUME NEW u \in task[s].roster \ Missing(s) PROVE Listed(s, u)'
      BY <1>i, <1>k, <1>t, <3>1, <3>3 DEF Missing
    <3> QED BY <3>1, <3>2, <3>3
  <2>5. CASE Inspect(s) \/ Discard(s) \/ NoGroupSession(s)
    <3>1. /\ task'[s].pc \in {"discard", "encrypt", "share"}
          /\ task'[s].roster = task[s].roster /\ task'[s].steady = task[s].steady
      BY <2>5, <1>t DEF Inspect, Discard, NoGroupSession, Goto, TaskType
    <3>2. \A u \in task[s].roster : Listed(s, u)
      <4>1. CASE Inspect(s)
        BY <4>1, <1>i DEF Inspect, Resolved, Missing, At
      <4>2. CASE Discard(s) \/ NoGroupSession(s)
        BY <4>2, <1>i DEF Discard, NoGroupSession, At
      <4> QED BY <2>5, <4>1, <4>2
    <3> QED BY <1>k, <1>t, <3>1, <3>2
  <2>6. CASE Share(s)
    <3>0. PICK lists : /\ lists = UNION {known'[u] : u \in members}
                       /\ task' = [task EXCEPT ![s].pc = "reencrypt", ![s].targets = lists]
      BY <2>6 DEF Share
    <3>1. /\ task'[s].pc = "reencrypt" /\ task'[s].targets = lists
          /\ task'[s].roster = task[s].roster /\ task'[s].steady = task[s].steady
      BY <3>0, <1>t DEF TaskType
    <3>2. task[s].roster \subseteq members /\ task[s].pc = "share"
      BY <2>6 DEF Remembered, Share, At
    <3>3. ASSUME NEW u \in task[s].roster, task[s].steady \cap DevicesOf[u] # {}
          PROVE  lists \cap DevicesOf[u] # {}
      <4>1. Listed(s, u)'
        BY <1>i, <1>k, <1>t, <3>1, <3>2
      <4>2. known'[u] \cap DevicesOf[u] # {}
        BY <3>1, <3>3, <4>1 DEF Listed
      <4>3. known'[u] \subseteq lists
        BY <3>0, <3>2
      <4> QED BY <4>2, <4>3
    <3> QED BY <3>1, <3>3
  <2> QED BY <1>3, <2>1, <2>2, <2>3, <2>4, <2>5, <2>6, SendMoves
<1> QED BY <1>1, <1>2, <1>3 DEF Next

LEMMA InitKeyShareInv == Init => KeyShareInv
<1> SUFFICES ASSUME Init PROVE KeyShareInv
  OBVIOUS
<1>1. \A s \in Senders : /\ task[s].pc = "idle" /\ task[s].born = 0
                         /\ task[s].steady = {} /\ task[s].roster = {}
  BY DEF Init, Idle
<1>2. Remembered
  BY <1>1 DEF Init, Remembered
<1>3. Numbered /\ StoredIsReadable /\ ReadableOrFresh /\ ListsFilled /\ NobodyOverlooked
  BY <1>1 DEF Init, Numbered, StoredIsReadable, ReadableOrFresh, ListsFilled, NobodyOverlooked, At
<1>4. Rotated /\ SessionsOfThisRun
  BY <1>1 DEF Init, Rotated, SessionsOfThisRun, At
<1> QED BY <1>2, <1>3, <1>4, InitKeyShareTypes DEF KeyShareInv

\* The inductive invariant holds of every reachable state.
THEOREM KeyShareInvariant == Spec => []KeyShareInv
<1>1. KeyShareInv /\ [Next]_vars => KeyShareInv'
  BY KeyShareTypesStep, RememberedStep, NumberedStep, ReadableStep, FilledStep, RotatedStep
  DEF KeyShareInv
<1> QED BY <1>1, InitKeyShareInv, PTL DEF Spec

\* The store, the session and the sends keep their types (ensureRecipientKeys).
THEOREM KeyShareTypeCorrect == Spec => []KeyShareTypeOK
<1>1. KeyShareInv => KeyShareTypeOK
  BY DEF KeyShareInv
<1> QED BY <1>1, KeyShareInvariant, PTL

\* However many sends race with each other, with /sync and with restarts, none
\* encrypts with a session it could have known to be unreadable
\* (dropUnsharedSession).
THEOREM UnreadableNotReused == Spec => []ReadableOrFresh
<1>1. KeyShareInv => ReadableOrFresh
  BY DEF KeyShareInv
<1> QED BY <1>1, KeyShareInvariant, PTL

\* No member with a device all along is left out when a session is shared
\* (usersNeedingKeys and the query).
THEOREM MembersNotOverlooked == Spec => []NobodyOverlooked
<1>1. KeyShareInv => NobodyOverlooked
  BY DEF KeyShareInv
<1> QED BY <1>1, KeyShareInvariant, PTL

\* A run encrypts with sessions of its own once it has rotated them (Start).
THEOREM RunUsesItsSessions == Spec => []SessionsOfThisRun
<1>1. KeyShareInv => SessionsOfThisRun
  BY DEF KeyShareInv
<1> QED BY <1>1, KeyShareInvariant, PTL
==============================================================================
