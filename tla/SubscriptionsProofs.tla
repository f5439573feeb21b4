------------------------ MODULE SubscriptionsProofs ------------------------
(***************************************************************************)
(* Why no interleaving leaves a subscription behind that nobody is about   *)
(* to be told of, for any users and any number of sockets. The argument is *)
(* that who signed in is subscribed to their own channel for as long as    *)
(* the socket is theirs, and that what ends an access is published there:  *)
(* the event waits to be published, then to be forwarded, which cannot     *)
(* happen between a permission check and the subscription that follows it. *)
(***************************************************************************)
EXTENDS Subscriptions, TLAPS

OwnChannels ==
    \A c \in Connections :
        connection[c].user # Anonymous => connection[c].user \in connection[c].groups

\* An event on the user's own channel has not been handled by the socket.
ToldSoon(c) == connection[c].user \in outbox \/ c \in inbox

\* A subscription that is about to be made to what can no longer be seen.
JoinsAreKnown ==
    \A c \in Connections, p \in Places :
        /\ connection[c].task = [kind |-> "join", place |-> p]
        /\ exists[p]
        /\ ~CanView(connection[c].user, p)
        /\ ~IsExcused(c)
        => ToldSoon(c)

\* Only who is signed in subscribes.
NobodyJoins ==
    \A c \in Connections, p \in Places :
        connection[c].task = [kind |-> "join", place |-> p] => connection[c].user # Anonymous

IInv == TypeOK /\ OwnChannels /\ NobodyJoins /\ JoinsAreKnown /\ StaleSubscriptionsAreKnown

LEMMA InitHolds == Init => IInv
  BY ChannelsAssumption
     DEF Init, IInv, TypeOK, OwnChannels, NobodyJoins, JoinsAreKnown, StaleSubscriptionsAreKnown,
         IsStale, NoConnection, Connection, Channels, Places, Tasks

-----------------------------------------------------------------------------
(* The commands: of one socket.                                            *)

\* What the steps of a socket change: nothing of who may see what, the record of
\* the socket, the events it was sent and the checks it asked.
OneSocket(c) ==
    /\ \A d \in Connections \ {c} : connection'[d] = connection[d] /\ asked'[d] = asked[d]
    /\ inbox \ {c} = inbox' \ {c}
    /\ switched \ {c} = switched' \ {c}
    /\ UNCHANGED data

\* It is enough to look at that socket.
LEMMA OneSocketSuffices ==
    ASSUME IInv, TypeOK', NEW c \in Connections, OneSocket(c),
           connection'[c].user # Anonymous => connection'[c].user \in connection'[c].groups,
           \A p \in Places :
             connection'[c].task = [kind |-> "join", place |-> p] => connection'[c].user # Anonymous,
           \A p \in Places :
             exists[p] /\ ~CanView(connection'[c].user, p) /\ ~IsExcused(c)' =>
               /\ connection'[c].task = [kind |-> "join", place |-> p] =>
                    connection'[c].user \in outbox \/ c \in inbox'
               /\ p \in connection'[c].groups => EndIsComing(c, p)'
    PROVE  IInv'
  <1>1. \A u, p : CanView(u, p)' = CanView(u, p)
    BY DEF OneSocket, data, CanView, CanViewProject, CanViewWorkspace
  <1>2. \A d \in Connections \ {c} :
          IsExcused(d)' = IsExcused(d) /\ ToldSoon(d)' = ToldSoon(d)
    BY DEF OneSocket, data, IsExcused, ToldSoon
  <1>3. \A d \in Connections \ {c}, p \in Places :
          IsStale(d, p)' = IsStale(d, p) /\ EndIsComing(d, p)' = EndIsComing(d, p)
    BY <1>1 DEF OneSocket, data, IsStale, EndIsComing
  <1>4. OwnChannels'
    BY DEF IInv, OwnChannels, OneSocket
  <1>7. NobodyJoins'
    BY DEF IInv, NobodyJoins, OneSocket
  <1>5. JoinsAreKnown'
    BY <1>1, <1>2 DEF IInv, JoinsAreKnown, OneSocket, data, ToldSoon
  <1>6. StaleSubscriptionsAreKnown'
    BY <1>1, <1>2, <1>3 DEF IInv, StaleSubscriptionsAreKnown, OneSocket, data, IsStale
  <1> QED BY <1>4, <1>5, <1>6, <1>7 DEF IInv

LEMMA ConnectionType ==
    ASSUME TypeOK, NEW c \in Connections
    PROVE  /\ connection[c].user \in Users \cup {Anonymous}
           /\ connection[c].groups \subseteq Channels
           /\ connection[c].task \in Tasks \cup {Idle}
           /\ connection[c] = [user |-> connection[c].user, groups |-> connection[c].groups,
                               task |-> connection[c].task]
  BY DEF TypeOK, Connection

\* Only the record of the socket changes.
LEMMA OnlyRecordChanges ==
    ASSUME IInv, NEW c \in Connections,
           NEW user \in Users \cup {Anonymous}, NEW groups \in SUBSET Channels,
           NEW task \in Tasks \cup {Idle},
           Becomes(c, user, groups, task),
           UNCHANGED data,
           IF user = Anonymous THEN groups = {} ELSE user \in groups,
           \A p \in Places : task = [kind |-> "join", place |-> p] => user # Anonymous,
           \A d \in Connections \ {c} : asked'[d] = asked[d],
           asked' \in [Connections -> SUBSET Places],
           inbox' \subseteq Connections, inbox \ {c} = inbox' \ {c},
           switched' \subseteq Connections, switched \ {c} = switched' \ {c},
           \A p \in Places :
             exists[p] /\ ~CanView(user, p) /\ ~(c \in switched' \/ user \in unnoticed) =>
               /\ task = [kind |-> "join", place |-> p] => user \in outbox \/ c \in inbox'
               /\ p \in groups =>
                    \/ user \in outbox \/ c \in inbox' \/ p \in asked'[c]
                    \/ task = [kind |-> "leave", place |-> p]
    PROVE  IInv'
  <1> DEFINE k == [user |-> user, groups |-> groups, task |-> task]
  <1>1. k \in Connection
    BY DEF Connection
  <1>2. connection' \in [Connections -> Connection] /\ connection'[c] = k
    BY <1>1 DEF IInv, TypeOK, Becomes
  <1>4. k.user = user /\ k.groups = groups /\ k.task = task
    OBVIOUS
  <1>A. \A d \in Connections \ {c} : connection'[d] = connection[d]
    BY <1>1 DEF IInv, TypeOK, Becomes
  <1>5. OneSocket(c)
    BY <1>A DEF OneSocket
  <1>3. TypeOK'
    <2> HIDE DEF k
    <2>1. \A d \in Connections : connection'[d].user = Anonymous => connection'[d].groups = {}
      BY <1>2, <1>4, <1>A DEF IInv, TypeOK
    <2> QED BY <1>2, <2>1 DEF IInv, TypeOK, data
  <1>6. /\ connection'[c].user = user
        /\ connection'[c].groups = groups
        /\ connection'[c].task = task
    BY <1>2, <1>4
  <1>7. IsExcused(c)' <=> c \in switched' \/ user \in unnoticed
    BY <1>6 DEF IsExcused, data
  <1>8. \A p \in Places :
          EndIsComing(c, p)' <=>
            \/ user \in outbox \/ c \in inbox' \/ p \in asked'[c]
            \/ task = [kind |-> "leave", place |-> p]
    BY <1>6 DEF EndIsComing, data
  <1>9. connection'[c].user # Anonymous => connection'[c].user \in connection'[c].groups
    BY <1>6
  <1>10. \A p \in Places :
           exists[p] /\ ~CanView(connection'[c].user, p) /\ ~IsExcused(c)' =>
             /\ connection'[c].task = [kind |-> "join", place |-> p] =>
                  connection'[c].user \in outbox \/ c \in inbox'
             /\ p \in connection'[c].groups => EndIsComing(c, p)'
    BY <1>6, <1>7, <1>8
  <1>11. \A p \in Places :
           connection'[c].task = [kind |-> "join", place |-> p] => connection'[c].user # Anonymous
    BY <1>6
  <1> QED BY <1>3, <1>5, <1>9, <1>10, <1>11, OneSocketSuffices

LEMMA TasksAreNotIdle ==
    \A p \in Places : Idle # [kind |-> "join", place |-> p] /\ Idle # [kind |-> "leave", place |-> p]
  BY ChannelsAssumption DEF Tasks

\* What the invariant says of a socket.
ConnectionFacts(c) ==
    /\ connection[c].groups \in SUBSET Channels
    /\ IF connection[c].user = Anonymous
       THEN connection[c].groups = {} ELSE connection[c].user \in connection[c].groups
    /\ \A p \in Places :
         exists[p] /\ ~CanView(connection[c].user, p) /\ ~IsExcused(c) =>
           /\ connection[c].task = [kind |-> "join", place |-> p] => ToldSoon(c)
           /\ p \in connection[c].groups => EndIsComing(c, p)

LEMMA ConnectionHolds ==
    ASSUME IInv, NEW c \in Connections
    PROVE  ConnectionFacts(c)
  <1>1. TypeOK
    BY DEF IInv
  <1>2. connection[c].groups \in SUBSET Channels
    BY <1>1, ConnectionType
  <1>3. IF connection[c].user = Anonymous
        THEN connection[c].groups = {} ELSE connection[c].user \in connection[c].groups
    BY <1>1 DEF IInv, OwnChannels, TypeOK
  <1> QED BY <1>2, <1>3
      DEF ConnectionFacts, IInv, JoinsAreKnown, StaleSubscriptionsAreKnown, IsStale

LEMMA SignInStep ==
    ASSUME IInv, NEW c \in Connections, NEW u \in Users, SignIn(c, u)
    PROVE  IInv'
  <1>0. TypeOK /\ u \in Channels
    BY DEF IInv, Channels
  <1>1. Becomes(c, u, connection[c].groups \cup {u}, Idle)
    BY DEF SignIn
  <1>2. connection[c].groups \cup {u} \subseteq Channels
    BY <1>0, ConnectionType
  <1>3. connection[c].user \notin {u, Anonymous} => c \in switched'
    BY <1>0 DEF SignIn, TypeOK
  <1>4. connection[c].user = Anonymous => connection[c].groups = {}
    BY DEF IInv, TypeOK
  <1>5. ASSUME NEW p \in Places, exists[p], ~CanView(u, p), ~(c \in switched' \/ u \in unnoticed),
               p \in connection[c].groups \cup {u}
        PROVE  u \in outbox \/ c \in inbox' \/ p \in asked'[c]
    <2>1. connection[c].user = u /\ c \notin switched
      BY <1>3, <1>4, <1>5, ChannelsAssumption DEF SignIn
    <2>2. p \in connection[c].groups
      BY <1>5, ChannelsAssumption
    <2>3. EndIsComing(c, p)
      BY <1>5, <2>1, <2>2 DEF IInv, StaleSubscriptionsAreKnown, IsStale, IsExcused
    <2> QED BY <2>1, <2>3, TasksAreNotIdle DEF EndIsComing, SignIn, IsIdle
  <1>6. /\ UNCHANGED <<data, inbox, asked>>
        /\ switched' \subseteq Connections /\ switched \ {c} = switched' \ {c}
    BY <1>0 DEF SignIn, TypeOK
  <1>7. /\ \A d \in Connections \ {c} : asked'[d] = asked[d]
        /\ asked' \in [Connections -> SUBSET Places]
        /\ inbox' \subseteq Connections /\ inbox \ {c} = inbox' \ {c}
    BY <1>0, <1>6 DEF TypeOK
  <1>8. IF u = Anonymous THEN connection[c].groups \cup {u} = {} ELSE u \in connection[c].groups \cup {u}
    BY ChannelsAssumption
  <1> QED BY <1>1, <1>2, <1>5, <1>6, <1>7, <1>8, OnlyRecordChanges, TasksAreNotIdle

\* The same user goes on with other groups, or another task.
LEMMA OnlyGroupsChange ==
    ASSUME IInv, NEW c \in Connections,
           NEW groups \in SUBSET Channels, NEW task \in Tasks \cup {Idle},
           Becomes(c, connection[c].user, groups, task),
           UNCHANGED <<data, inbox, asked, switched>>,
           IF connection[c].user = Anonymous THEN groups = {} ELSE connection[c].user \in groups,
           \A p \in Places :
             task = [kind |-> "join", place |-> p] => connection[c].user # Anonymous,
           \A p \in Places :
             exists[p] /\ ~CanView(connection[c].user, p) /\ ~IsExcused(c) =>
               /\ task = [kind |-> "join", place |-> p] => ToldSoon(c)
               /\ p \in groups => EndIsComing(c, p)
               /\ p \in groups /\ connection[c].task = [kind |-> "leave", place |-> p] =>
                    ToldSoon(c) \/ p \in asked[c] \/ task = [kind |-> "leave", place |-> p]
    PROVE  IInv'
  <1>1. TypeOK /\ connection[c].user \in Users \cup {Anonymous}
    BY ConnectionType DEF IInv
  <1>2. /\ \A d \in Connections \ {c} : asked'[d] = asked[d]
        /\ asked' \in [Connections -> SUBSET Places]
        /\ inbox' \subseteq Connections /\ inbox \ {c} = inbox' \ {c}
        /\ switched' \subseteq Connections /\ switched \ {c} = switched' \ {c}
    BY <1>1 DEF TypeOK
  <1>3. \A p \in Places :
          exists[p] /\ ~CanView(connection[c].user, p)
            /\ ~(c \in switched' \/ connection[c].user \in unnoticed) =>
            /\ task = [kind |-> "join", place |-> p] => connection[c].user \in outbox \/ c \in inbox'
            /\ p \in groups =>
                 \/ connection[c].user \in outbox \/ c \in inbox' \/ p \in asked'[c]
                 \/ task = [kind |-> "leave", place |-> p]
    BY DEF IsExcused, ToldSoon, EndIsComing
  <1> QED BY <1>1, <1>2, <1>3, OnlyRecordChanges

LEMMA BeginSubscribeStep ==
    ASSUME IInv, NEW c \in Connections, NEW p \in Places, BeginSubscribe(c, p)
    PROVE  IInv'
  <1> DEFINE task == [kind |-> "join", place |-> p]
  <1>1. ConnectionFacts(c)
    BY ConnectionHolds
  <1>2. task \in Tasks \cup {Idle}
    BY DEF Tasks
  <1>3. \A q \in Places : task = [kind |-> "join", place |-> q] => p = q
    OBVIOUS
  <1>4. /\ Becomes(c, connection[c].user, connection[c].groups, task)
        /\ UNCHANGED <<data, inbox, asked, switched>>
        /\ connection[c].task = Idle
        /\ CanView(connection[c].user, p)
        /\ connection[c].user # Anonymous
    BY DEF BeginSubscribe, IsIdle, CanView
  <1> HIDE DEF task
  <1> QED BY <1>1, <1>2, <1>3, <1>4, OnlyGroupsChange, TasksAreNotIdle DEF ConnectionFacts

LEMMA EndSubscribeStep ==
    ASSUME IInv, NEW c \in Connections, NEW p \in Places, EndSubscribe(c, p)
    PROVE  IInv'
  <1>1. ConnectionFacts(c)
    BY ConnectionHolds
  <1>2. connection[c].groups \cup {p} \subseteq Channels
    BY <1>1 DEF ConnectionFacts, Channels
  <1>3. connection[c].user # Anonymous
    BY DEF IInv, NobodyJoins, EndSubscribe
  <1>4. \A q \in Places : connection[c].task # [kind |-> "leave", place |-> q]
    BY DEF EndSubscribe
  <1>5. /\ Becomes(c, connection[c].user, connection[c].groups \cup {p}, Idle)
        /\ UNCHANGED <<data, inbox, asked, switched>>
    BY DEF EndSubscribe
  <1>6. ASSUME NEW q \in Places, exists[q], ~CanView(connection[c].user, q), ~IsExcused(c),
               q \in connection[c].groups \cup {p}
        PROVE  EndIsComing(c, q)
    <2>1. CASE q = p
      BY <1>1, <1>6, <2>1 DEF ConnectionFacts, EndSubscribe, ToldSoon, EndIsComing
    <2>2. CASE q # p
      BY <1>1, <1>6, <2>2 DEF ConnectionFacts
    <2> QED BY <2>1, <2>2
  <1> QED BY <1>1, <1>2, <1>3, <1>4, <1>5, <1>6, OnlyGroupsChange, TasksAreNotIdle
      DEF ConnectionFacts

LEMMA UnsubscribeStep ==
    ASSUME IInv, NEW c \in Connections, NEW p \in Places, Unsubscribe(c, p)
    PROVE  IInv'
  <1>1. ConnectionFacts(c)
    BY ConnectionHolds
  <1>2. p # connection[c].user
    BY ConnectionType, ChannelsAssumption DEF IInv, Unsubscribe
  <1>3. /\ Becomes(c, connection[c].user, connection[c].groups \ {p}, Idle)
        /\ UNCHANGED <<data, inbox, asked, switched>>
        /\ connection[c].task = Idle
    BY DEF Unsubscribe, IsIdle
  <1>4. connection[c].groups \ {p} \in SUBSET Channels
    BY <1>1 DEF ConnectionFacts
  <1> QED BY <1>1, <1>2, <1>3, <1>4, OnlyGroupsChange, TasksAreNotIdle DEF ConnectionFacts

LEMMA UnsubscribeAllStep ==
    ASSUME IInv, NEW c \in Connections, UnsubscribeAll(c)
    PROVE  IInv'
  <1>1. ConnectionFacts(c)
    BY ConnectionHolds
  <1> DEFINE groups == connection[c].groups \cap {connection[c].user}
  <1>2. /\ Becomes(c, connection[c].user, groups, Idle)
        /\ UNCHANGED <<data, inbox, asked, switched>>
        /\ connection[c].task = Idle
    BY DEF UnsubscribeAll, IsIdle
  <1>3. /\ groups \in SUBSET Channels
        /\ groups \subseteq connection[c].groups
        /\ IF connection[c].user = Anonymous THEN groups = {} ELSE connection[c].user \in groups
    BY <1>1 DEF ConnectionFacts
  <1> HIDE DEF groups
  <1>4. \A p \in Places :
          exists[p] /\ ~CanView(connection[c].user, p) /\ ~IsExcused(c) /\ p \in groups =>
            EndIsComing(c, p)
    BY <1>1, <1>3 DEF ConnectionFacts
  <1>5. \A p \in Places : connection[c].task # [kind |-> "leave", place |-> p]
    BY <1>2, TasksAreNotIdle
  <1> QED BY <1>2, <1>3, <1>4, <1>5, OnlyGroupsChange, TasksAreNotIdle

LEMMA EndCheckStep ==
    ASSUME IInv, NEW c \in Connections, NEW p \in Places, EndCheck(c, p)
    PROVE  IInv'
  <1>1. ConnectionFacts(c)
    BY ConnectionHolds
  <1>2. p # connection[c].user \/ connection[c].user = Anonymous
    BY ConnectionType, ChannelsAssumption DEF IInv
  <1> DEFINE groups == connection[c].groups \ {p}
  <1>3. /\ Becomes(c, connection[c].user, groups, Idle)
        /\ UNCHANGED <<data, inbox, asked, switched>>
    BY DEF EndCheck
  <1>4. groups \in SUBSET Channels
    BY <1>1 DEF ConnectionFacts
  <1>5. \A q \in Places : connection[c].task = [kind |-> "leave", place |-> q] => q = p
    BY DEF EndCheck
  <1>6. IF connection[c].user = Anonymous THEN groups = {} ELSE connection[c].user \in groups
    BY <1>1, <1>2 DEF ConnectionFacts
  <1>7. \A q \in Places :
          exists[q] /\ ~CanView(connection[c].user, q) /\ ~IsExcused(c) /\ q \in groups =>
            EndIsComing(c, q)
    BY <1>1 DEF ConnectionFacts
  <1>8. \A q \in Places : q \in groups => connection[c].task # [kind |-> "leave", place |-> q]
    BY <1>5
  <1> HIDE DEF groups
  <1> QED BY <1>3, <1>4, <1>6, <1>7, <1>8, OnlyGroupsChange, TasksAreNotIdle

\* What was asked of is left when it should be.
LEMMA BeginCheckStep ==
    ASSUME IInv, NEW c \in Connections, NEW p \in Places, BeginCheck(c, p)
    PROVE  IInv'
  <1> DEFINE ends == exists[p] /\ ~CanView(connection[c].user, p)
  <1> DEFINE task == IF ends THEN [kind |-> "leave", place |-> p] ELSE Idle
  <1>1. ConnectionFacts(c) /\ TypeOK /\ connection[c].user \in Users \cup {Anonymous}
    BY ConnectionHolds, ConnectionType DEF IInv
  <1>2. task \in Tasks \cup {Idle} /\ (ends => task = [kind |-> "leave", place |-> p])
    BY DEF Tasks
  <1>3. \A q \in Places : task # [kind |-> "join", place |-> q]
    BY TasksAreNotIdle
  <1>4. /\ Becomes(c, connection[c].user, connection[c].groups, task)
        /\ UNCHANGED <<data, inbox, switched>>
        /\ connection[c].task = Idle
        /\ asked' = [asked EXCEPT ![c] = @ \ {p}]
    BY DEF BeginCheck, IsIdle
  <1>5. /\ \A d \in Connections \ {c} : asked'[d] = asked[d]
        /\ asked' \in [Connections -> SUBSET Places]
        /\ asked'[c] = asked[c] \ {p}
        /\ inbox' \subseteq Connections /\ inbox \ {c} = inbox' \ {c}
        /\ switched' \subseteq Connections /\ switched \ {c} = switched' \ {c}
    BY <1>1, <1>4 DEF TypeOK
  <1> HIDE DEF task
  <1>6. ASSUME NEW q \in Places, exists[q], ~CanView(connection[c].user, q),
               ~(c \in switched' \/ connection[c].user \in unnoticed), q \in connection[c].groups
        PROVE  \/ connection[c].user \in outbox \/ c \in inbox' \/ q \in asked'[c]
               \/ task = [kind |-> "leave", place |-> q]
    <2>1. EndIsComing(c, q)
      BY <1>1, <1>4, <1>6 DEF ConnectionFacts, IsExcused
    <2>2. CASE q = p
      BY <1>2, <1>6, <2>2
    <2>3. CASE q # p
      BY <1>4, <1>5, <2>1, <2>3, TasksAreNotIdle DEF EndIsComing
    <2> QED BY <2>2, <2>3
  <1>7. /\ connection[c].groups \in SUBSET Channels
        /\ IF connection[c].user = Anonymous
           THEN connection[c].groups = {} ELSE connection[c].user \in connection[c].groups
    BY <1>1 DEF ConnectionFacts
  <1> HIDE DEF ends
  <1> QED BY <1>1, <1>2, <1>3, <1>4, <1>5, <1>6, <1>7, OnlyRecordChanges

LEMMA SignOutStep ==
    ASSUME IInv, NEW c \in Connections, SignOut(c)
    PROVE  IInv'
  <1>1. TypeOK
    BY DEF IInv
  <1>2. /\ Becomes(c, Anonymous, {}, Idle)
        /\ UNCHANGED data
        /\ switched' = switched \ {c} /\ inbox' = inbox \ {c}
        /\ asked' = [asked EXCEPT ![c] = {}]
    BY DEF SignOut
  <1>3. /\ \A d \in Connections \ {c} : asked'[d] = asked[d]
        /\ asked' \in [Connections -> SUBSET Places]
        /\ inbox' \subseteq Connections /\ inbox \ {c} = inbox' \ {c}
        /\ switched' \subseteq Connections /\ switched \ {c} = switched' \ {c}
    BY <1>1, <1>2 DEF TypeOK
  <1> QED BY <1>2, <1>3, OnlyRecordChanges, TasksAreNotIdle

\* The client is told, and asks about all it subscribed to.
LEMMA ForwardStep ==
    ASSUME IInv, NEW c \in Connections, Forward(c)
    PROVE  IInv'
  <1>1. ConnectionFacts(c) /\ TypeOK /\ connection[c].user \in Users \cup {Anonymous}
    BY ConnectionHolds, ConnectionType DEF IInv
  <1>2. /\ UNCHANGED <<data, connection, switched>>
        /\ connection[c].task = Idle
        /\ inbox' = inbox \ {c}
        /\ asked' = [asked EXCEPT ![c] = @ \cup (connection[c].groups \cap Places)]
    BY DEF Forward, IsIdle
  <1>3. Becomes(c, connection[c].user, connection[c].groups, Idle)
    <2>1. connection[c] = [user |-> connection[c].user, groups |-> connection[c].groups, task |-> Idle]
      BY <1>1, <1>2, ConnectionType
    <2>2. connection' = [connection EXCEPT ![c] = connection[c]]
      BY <1>1, <1>2 DEF TypeOK
    <2> QED BY <2>1, <2>2 DEF Becomes
  <1>4. /\ \A d \in Connections \ {c} : asked'[d] = asked[d]
        /\ asked' \in [Connections -> SUBSET Places]
        /\ \A p \in Places : p \in connection[c].groups => p \in asked'[c]
        /\ inbox' \subseteq Connections /\ inbox \ {c} = inbox' \ {c}
        /\ switched' \subseteq Connections /\ switched \ {c} = switched' \ {c}
    BY <1>1, <1>2 DEF TypeOK
  <1>5. /\ connection[c].groups \in SUBSET Channels
        /\ IF connection[c].user = Anonymous
           THEN connection[c].groups = {} ELSE connection[c].user \in connection[c].groups
    BY <1>1 DEF ConnectionFacts
  <1>6. UNCHANGED data
    BY <1>2
  <1>7. \A p \in Places : Idle # [kind |-> "join", place |-> p]
    BY TasksAreNotIdle
  <1>8. \A p \in Places :
          exists[p] /\ ~CanView(connection[c].user, p)
            /\ ~(c \in switched' \/ connection[c].user \in unnoticed) =>
            /\ Idle = [kind |-> "join", place |-> p] => connection[c].user \in outbox \/ c \in inbox'
            /\ p \in connection[c].groups =>
                 \/ connection[c].user \in outbox \/ c \in inbox' \/ p \in asked'[c]
                 \/ Idle = [kind |-> "leave", place |-> p]
    BY <1>4, <1>7
  <1> QED BY <1>1, <1>3, <1>4, <1>5, <1>6, <1>7, <1>8, OnlyRecordChanges, SMTT(60)

-----------------------------------------------------------------------------
(* The requests.                                                           *)

\* Whoever loses an access has an event on the way, or is one of those who get none.
LEMMA RequestSuffices ==
    ASSUME IInv, TypeOK', UNCHANGED rest,
           outbox \subseteq outbox', unnoticed \subseteq unnoticed',
           \A p \in Places : exists'[p] => exists[p],
           \A u \in Users, p \in Places :
             exists'[p] /\ CanView(u, p) /\ ~CanView(u, p)' => u \in outbox' \/ u \in unnoticed'
    PROVE  IInv'
  <1>1. \A c \in Connections : connection[c].user \in Users \cup {Anonymous}
    BY ConnectionType DEF IInv
  <1>2. OwnChannels' /\ NobodyJoins'
    BY DEF IInv, OwnChannels, NobodyJoins, rest
  <1>3. \A c \in Connections : ToldSoon(c) => ToldSoon(c)'
    BY DEF ToldSoon, rest
  <1>4. \A c \in Connections : ~IsExcused(c)' => ~IsExcused(c)
    BY DEF IsExcused, rest
  <1>5. ASSUME NEW c \in Connections, NEW p \in Places, exists'[p],
               CanView(connection[c].user, p), ~CanView(connection[c].user, p)', ~IsExcused(c)'
        PROVE  ToldSoon(c)'
    <2>1. connection[c].user \in Users /\ connection'[c].user = connection[c].user
      BY <1>1, <1>5 DEF CanView, rest
    <2> QED BY <1>5, <2>1 DEF ToldSoon, IsExcused
  <1>6. \A c \in Connections, p \in Places : EndIsComing(c, p) => EndIsComing(c, p)'
    BY DEF EndIsComing, rest
  <1>7. JoinsAreKnown'
    <2> SUFFICES ASSUME NEW c \in Connections, NEW p \in Places, exists'[p],
                        (connection[c].task = [kind |-> "join", place |-> p])',
                        ~CanView(connection[c].user, p)', ~IsExcused(c)'
                 PROVE  ToldSoon(c)'
      BY DEF JoinsAreKnown
    <2>1. CASE CanView(connection[c].user, p)
      BY <1>5, <2>1
    <2>2. CASE ~CanView(connection[c].user, p)
      BY <1>3, <1>4, <2>2 DEF IInv, JoinsAreKnown, rest
    <2> QED BY <2>1, <2>2
  <1>8. StaleSubscriptionsAreKnown'
    <2> SUFFICES ASSUME NEW c \in Connections, NEW p \in Places, IsStale(c, p)', ~IsExcused(c)'
                 PROVE  EndIsComing(c, p)'
      BY DEF StaleSubscriptionsAreKnown
    <2>1. CASE CanView(connection[c].user, p)
      BY <1>5, <2>1 DEF IsStale, ToldSoon, EndIsComing
    <2>2. CASE ~CanView(connection[c].user, p)
      BY <1>4, <1>6, <2>2 DEF IInv, StaleSubscriptionsAreKnown, IsStale, rest
    <2> QED BY <2>1, <2>2
  <1> QED BY <1>2, <1>7, <1>8 DEF IInv

\* What an access of a user becomes.
LEMMA AccessType ==
    ASSUME TypeOK, NEW u \in Users, NEW p \in Places, NEW a \in {"none", "invited", "member"}
    PROVE  /\ [access EXCEPT ![u][p] = a] \in [Users -> [Places -> {"none", "invited", "member"}]]
           /\ \A v \in Users, q \in Places :
                [access EXCEPT ![u][p] = a][v][q] = IF v = u /\ q = p THEN a ELSE access[v][q]
  BY DEF TypeOK

LEMMA InviteStep ==
    ASSUME IInv, NEW u \in Users, NEW p \in Places, Invite(u, p)
    PROVE  IInv'
  <1>1. TypeOK
    BY DEF IInv
  <1>2. TypeOK'
    BY <1>1, AccessType DEF TypeOK, Invite, Emit, Channels, rest
  <1>3. \A v \in Users, q \in Places : access[v][q] # "none" => access'[v][q] = access[v][q]
    BY <1>1, AccessType DEF Invite
  <1>4. \A v \in Users, q \in Places : CanView(v, q) => CanView(v, q)'
    BY <1>3 DEF CanView, CanViewProject, CanViewWorkspace, Invite, Places
  <1> QED BY <1>2, <1>4, RequestSuffices DEF Invite, Emit

\* Only what one user may see can have ended, and an event goes to that user.
LEMMA OneUserSuffices ==
    ASSUME IInv, NEW u \in Users, UNCHANGED <<exists, unnoticed, rest>>,
           accounts' \subseteq Users, NEW channels \in SUBSET Channels, Emit(channels),
           access' \in [Users -> [Places -> {"none", "invited", "member"}]],
           \A v \in Users \ {u} : access'[v] = access[v],
           u \in channels
    PROVE  IInv'
  <1>1. TypeOK'
    BY DEF IInv, TypeOK, Emit, rest
  <1>2. \A v \in Users \ {u}, p \in Places : CanView(v, p) => CanView(v, p)'
    BY DEF CanView, CanViewProject, CanViewWorkspace
  <1> QED BY <1>1, <1>2, RequestSuffices DEF Emit

LEMMA EndInvitationStep ==
    ASSUME IInv, NEW u \in Users, NEW p \in Places, EndInvitation(u, p)
    PROVE  IInv'
  <1> DEFINE channels == {u, p}
  <1>1. TypeOK
    BY DEF IInv
  <1>2. channels \in SUBSET Channels /\ u \in channels
    BY DEF Channels, Places
  <1>3. /\ access' \in [Users -> [Places -> {"none", "invited", "member"}]]
        /\ \A v \in Users \ {u} : access'[v] = access[v]
    BY <1>1, AccessType DEF EndInvitation, Places, TypeOK
  <1>4. UNCHANGED <<exists, unnoticed, rest>> /\ Emit(channels) /\ accounts' \subseteq Users
    BY <1>1 DEF EndInvitation, TypeOK
  <1> HIDE DEF channels
  <1> QED BY <1>2, <1>3, <1>4, OneUserSuffices

LEMMA AcceptWorkspaceInvitationStep ==
    ASSUME IInv, NEW u \in Users, AcceptWorkspaceInvitation(u)
    PROVE  IInv'
  <1> DEFINE channels == {"workspace", u}
  <1>1. TypeOK
    BY DEF IInv
  <1>2. channels \in SUBSET Channels /\ u \in channels
    BY DEF Channels, Places
  <1>3. /\ access' \in [Users -> [Places -> {"none", "invited", "member"}]]
        /\ \A v \in Users \ {u} : access'[v] = access[v]
    BY <1>1, AccessType DEF AcceptWorkspaceInvitation, Places, TypeOK
  <1>4. UNCHANGED <<exists, unnoticed, rest>> /\ Emit(channels) /\ accounts' \subseteq Users
    BY <1>1 DEF AcceptWorkspaceInvitation, TypeOK
  <1> HIDE DEF channels
  <1> QED BY <1>2, <1>3, <1>4, OneUserSuffices

LEMMA AcceptProjectInvitationStep ==
    ASSUME IInv, NEW u \in Users, AcceptProjectInvitation(u)
    PROVE  IInv'
  <1> DEFINE channels == {"project", u} \cup IF access[u]["workspace"] = "member" THEN {} ELSE {"workspace"}
  <1>1. TypeOK
    BY DEF IInv
  <1>2. channels \in SUBSET Channels /\ u \in channels
    BY DEF Channels, Places
  <1>3. /\ access' \in [Users -> [Places -> {"none", "invited", "member"}]]
        /\ \A v \in Users \ {u} : access'[v] = access[v]
    BY <1>1 DEF AcceptProjectInvitation, TypeOK
  <1>4. UNCHANGED <<exists, unnoticed, rest>> /\ Emit(channels) /\ accounts' \subseteq Users
    BY <1>1 DEF AcceptProjectInvitation, TypeOK
  <1> HIDE DEF channels
  <1> QED BY <1>2, <1>3, <1>4, OneUserSuffices

LEMMA DeleteProjectMembershipStep ==
    ASSUME IInv, NEW u \in Users, DeleteProjectMembership(u)
    PROVE  IInv'
  <1> DEFINE channels == {"project", u}
  <1>1. TypeOK
    BY DEF IInv
  <1>2. channels \in SUBSET Channels /\ u \in channels
    BY DEF Channels, Places
  <1>3. /\ access' \in [Users -> [Places -> {"none", "invited", "member"}]]
        /\ \A v \in Users \ {u} : access'[v] = access[v]
    BY <1>1, AccessType DEF DeleteProjectMembership, Places, TypeOK
  <1>4. UNCHANGED <<exists, unnoticed, rest>> /\ Emit(channels) /\ accounts' \subseteq Users
    BY <1>1 DEF DeleteProjectMembership, TypeOK
  <1> HIDE DEF channels
  <1> QED BY <1>2, <1>3, <1>4, OneUserSuffices

LEMMA DeleteWorkspaceMembershipStep ==
    ASSUME IInv, NEW u \in Users, DeleteWorkspaceMembership(u)
    PROVE  IInv'
  <1> DEFINE channels == {"workspace", u} \cup IF access[u]["project"] = "member" THEN {"project"} ELSE {}
  <1>1. TypeOK
    BY DEF IInv
  <1>2. channels \in SUBSET Channels /\ u \in channels
    BY DEF Channels, Places
  <1>3. /\ access' \in [Users -> [Places -> {"none", "invited", "member"}]]
        /\ \A v \in Users \ {u} : access'[v] = access[v]
    BY <1>1 DEF DeleteWorkspaceMembership, TypeOK
  <1>4. UNCHANGED <<exists, unnoticed, rest>> /\ Emit(channels) /\ accounts' \subseteq Users
    BY <1>1 DEF DeleteWorkspaceMembership, TypeOK
  <1> HIDE DEF channels
  <1> QED BY <1>2, <1>3, <1>4, OneUserSuffices

LEMMA DeleteUserStep ==
    ASSUME IInv, NEW u \in Users, DeleteUser(u)
    PROVE  IInv'
  <1> DEFINE channels == {u} \cup {p \in Places : access[u][p] # "none"}
  <1>1. TypeOK
    BY DEF IInv
  <1>2. channels \in SUBSET Channels /\ u \in channels
    BY DEF Channels, Places
  <1>3. /\ access' \in [Users -> [Places -> {"none", "invited", "member"}]]
        /\ \A v \in Users \ {u} : access'[v] = access[v]
    BY <1>1 DEF DeleteUser, TypeOK
  <1>4. UNCHANGED <<exists, unnoticed, rest>> /\ Emit(channels) /\ accounts' \subseteq Users
    BY <1>1 DEF DeleteUser, TypeOK
  <1> HIDE DEF channels
  <1> QED BY <1>2, <1>3, <1>4, OneUserSuffices

\* Nobody is told who was invited: they are those without an event. Who was a
\* member of the project was one of the workspace, or sees it as before.
LEMMA DeleteProjectStep ==
    ASSUME IInv, DeleteProject
    PROVE  IInv'
  <1>1. TypeOK
    BY DEF IInv
  <1>2. TypeOK'
    BY <1>1 DEF TypeOK, DeleteProject, Emit, Channels, rest
  <1>3. \A p \in Places : exists'[p] => exists[p] /\ p = "workspace"
    BY <1>1 DEF DeleteProject, TypeOK, Places
  <1>4. ASSUME NEW u \in Users, CanView(u, "workspace"), ~CanView(u, "workspace")'
        PROVE  u \in unnoticed'
    <2>1. access[u]["project"] = "invited" \/ access[u]["workspace"] # "none"
      BY <1>4 DEF CanView, CanViewWorkspace
    <2>2. access'[u]["workspace"] = access[u]["workspace"] /\ exists'["workspace"] = exists["workspace"]
      BY <1>1 DEF DeleteProject, TypeOK, Places
    <2> QED BY <1>4, <2>1, <2>2 DEF DeleteProject, CanView, CanViewWorkspace
  <1> QED BY <1>2, <1>3, <1>4, RequestSuffices DEF DeleteProject, Emit

LEMMA DeleteWorkspaceStep ==
    ASSUME IInv, DeleteWorkspace
    PROVE  IInv'
  <1>1. TypeOK
    BY DEF IInv
  <1>2. TypeOK'
    BY <1>1 DEF TypeOK, DeleteWorkspace, Emit, Channels, Places, rest
  <1>3. \A p \in Places : ~exists'[p]
    BY <1>1 DEF DeleteWorkspace, TypeOK, Places
  <1> QED BY <1>2, <1>3, RequestSuffices DEF DeleteWorkspace, Emit

-----------------------------------------------------------------------------
(* Events.                                                                 *)

\* Who should be told is in the group of their own channel.
LEMMA PublishStep ==
    ASSUME IInv, NEW channel \in Channels, Publish(channel)
    PROVE  IInv'
  <1>1. TypeOK /\ \A c \in Connections : connection[c].user \in Users \cup {Anonymous}
    BY ConnectionType DEF IInv
  <1>2. TypeOK'
    BY <1>1 DEF Publish, TypeOK
  <1>3. \A u, p : CanView(u, p)' = CanView(u, p)
    BY DEF Publish, CanView, CanViewProject, CanViewWorkspace
  <1>4. \A c \in Connections :
          ToldSoon(c) /\ connection[c].user # Anonymous => ToldSoon(c)'
    BY DEF IInv, OwnChannels, ToldSoon, Publish
  <1>5. \A c \in Connections, p \in Places :
          EndIsComing(c, p) /\ connection[c].user # Anonymous => EndIsComing(c, p)'
    BY <1>4 DEF ToldSoon, EndIsComing, Publish
  <1>6. OwnChannels' /\ NobodyJoins'
    BY DEF IInv, OwnChannels, NobodyJoins, Publish
  <1>7. JoinsAreKnown'
    BY <1>3, <1>4 DEF IInv, JoinsAreKnown, NobodyJoins, IsExcused, Publish
  <1>8. \A c \in Connections, p \in Places : IsStale(c, p)' => IsStale(c, p) /\ connection[c].user # Anonymous
    BY <1>1, <1>3 DEF IsStale, TypeOK, Publish
  <1>9. StaleSubscriptionsAreKnown'
    BY <1>5, <1>8 DEF IInv, StaleSubscriptionsAreKnown, IsExcused, Publish
  <1> QED BY <1>2, <1>6, <1>7, <1>9 DEF IInv

LEMMA LoseStep ==
    ASSUME IInv, NEW channel \in Channels, Lose(channel)
    PROVE  IInv'
  <1>1. TypeOK /\ \A c \in Connections : connection[c].user \in Users \cup {Anonymous}
    BY ConnectionType DEF IInv
  <1>2. TypeOK'
    BY <1>1 DEF Lose, TypeOK
  <1>3. \A u, p : CanView(u, p)' = CanView(u, p)
    BY DEF Lose, CanView, CanViewProject, CanViewWorkspace
  <1>4. \A c \in Connections :
          ToldSoon(c) /\ connection[c].user # Anonymous /\ ~IsExcused(c)' => ToldSoon(c)'
    BY <1>1 DEF ToldSoon, IsExcused, Lose
  <1>5. \A c \in Connections, p \in Places :
          EndIsComing(c, p) /\ connection[c].user # Anonymous /\ ~IsExcused(c)' => EndIsComing(c, p)'
    BY <1>4 DEF ToldSoon, EndIsComing, Lose
  <1>6. OwnChannels' /\ NobodyJoins'
    BY DEF IInv, OwnChannels, NobodyJoins, Lose
  <1>7. \A c \in Connections : ~IsExcused(c)' => ~IsExcused(c)
    BY DEF IsExcused, Lose
  <1>8. JoinsAreKnown'
    BY <1>3, <1>4, <1>7 DEF IInv, JoinsAreKnown, NobodyJoins, Lose
  <1>9. \A c \in Connections, p \in Places : IsStale(c, p)' => IsStale(c, p) /\ connection[c].user # Anonymous
    BY <1>1, <1>3 DEF IsStale, TypeOK, Lose
  <1>10. StaleSubscriptionsAreKnown'
    BY <1>5, <1>7, <1>9 DEF IInv, StaleSubscriptionsAreKnown, Lose
  <1> QED BY <1>2, <1>6, <1>8, <1>10 DEF IInv

-----------------------------------------------------------------------------
LEMMA Stuttering ==
    ASSUME IInv, UNCHANGED vars
    PROVE  IInv'
  BY DEF vars, IInv, TypeOK, OwnChannels, NobodyJoins, JoinsAreKnown, StaleSubscriptionsAreKnown,
     IsStale, IsExcused, EndIsComing, ToldSoon, CanView, CanViewProject, CanViewWorkspace

LEMMA StepHolds == IInv /\ [Next]_vars => IInv'
  <1> SUFFICES ASSUME IInv, [Next]_vars
               PROVE  IInv'
    OBVIOUS
  <1>1. ASSUME NEW c \in Connections, Command(c) PROVE IInv'
    BY <1>1, SignInStep, SignOutStep, UnsubscribeAllStep, BeginSubscribeStep, UnsubscribeStep,
       BeginCheckStep DEF Command
  <1>2. ASSUME NEW c \in Connections, ConsumerStep(c) PROVE IInv'
    BY <1>2, EndSubscribeStep, EndCheckStep, ForwardStep DEF ConsumerStep
  <1>3. ASSUME Request PROVE IInv'
    BY <1>3, InviteStep, EndInvitationStep, AcceptWorkspaceInvitationStep,
       AcceptProjectInvitationStep, DeleteProjectMembershipStep, DeleteWorkspaceMembershipStep,
       DeleteUserStep, DeleteProjectStep, DeleteWorkspaceStep DEF Request
  <1> QED BY <1>1, <1>2, <1>3, PublishStep, LoseStep, Stuttering DEF Next

LEMMA Invariance == Spec => []IInv
  BY InitHolds, StepHolds, PTL DEF Spec

\* The state of the websockets and of what they are subscribed to keeps its shape.
THEOREM SubscriptionsAreTyped == Spec => []TypeOK
  BY Invariance, PTL DEF IInv

\* For any users and sockets, whoever still receives the events of a project or a
\* workspace they can no longer see is about to be told so (events/actions.py).
THEOREM StaleSubscriptionsAreAlwaysKnown == Spec => []StaleSubscriptionsAreKnown
  BY Invariance, PTL DEF IInv
=============================================================================
