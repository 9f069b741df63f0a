------------------------- MODULE WeaselSessionProofs -------------------------
(***************************************************************************)
(* Theorems about the server's sessions, for any number of clients,        *)
(* sessions, deployments and ends of processes.                            *)
(*                                                                         *)
(* The properties are not inductive alone.  What they need besides: two    *)
(* entries never name the same session (Distinct), a disabled server has   *)
(* no session, and a server that is not there is disabled (Off), and the   *)
(* deployer has told the server only while it is past its lock (Told).     *)
(***************************************************************************)
EXTENDS WeaselSession, WellFoundedInduction, TLAPS

Distinct ==
    \A i, j \in DOMAIN table : table[i] # None /\ table[i] = table[j] => i = j
Off == (disabled => live = {}) /\ (~running => disabled)
Told == told => deployer \in {"working", "unlocked"}

Book == Distinct /\ OwnSession /\ ListedIsLive
IInv == TypeOK /\ Off /\ Told /\ MaintenanceExcludes /\ Book

-----------------------------------------------------------------------------
(* The operators on tables. *)

(* A set of numbers below a bound has a largest. *)
LEMMA HasLast ==
    ASSUME NEW m \in Nat, NEW S, S \subseteq 0..m, S # {}
    PROVE  \E i \in S : \A j \in S : j <= i
<1> DEFINE T == {m - i : i \in S}
<1>1. T \subseteq Nat
  BY SMT
<1>2. T # {}
  <2>1. PICK i \in S : TRUE
    OBVIOUS
  <2>2. m - i \in T
    BY <2>1
  <2> QED BY <2>2
<1>3. PICK x \in T : \A y \in T : ~(<<y, x>> \in OpToRel(<, Nat))
  <2> HIDE DEF T
  <2> QED BY ONLY <1>1, <1>2, NatLessThanWellFounded, WFMin, Zenon
<1>4. \A y \in T : x <= y
  <2> HIDE DEF T
  <2>1. \A y \in T : ~(y < x)
    BY <1>1, <1>3 DEF OpToRel
  <2> QED BY <2>1, <1>1, SMT
<1>5. PICK i \in S : x = m - i
  OBVIOUS
<1>6. \A j \in S : j <= i
  <2>1. TAKE j \in S
  <2>2. m - j \in T
    OBVIOUS
  <2>3. m - i <= m - j
    BY <1>4, <1>5, <2>2
  <2>4. i \in Nat /\ j \in Nat
    BY SMT
  <2> HIDE DEF T
  <2> QED BY <2>3, <2>4, SMT
<1> QED BY <1>6

LEMMA EmptyTable == DOMAIN Empty = {} /\ \A i : SessionOf(Empty, i) = None
BY DEF Empty, SessionOf

(* A new number is no number of the table. *)
LEMMA NewIdIsNew ==
    ASSUME TypeOK, NEW t, t = table \/ t = Empty
    PROVE  NewId(t) \in Nat /\ NewId(t) \notin DOMAIN t
<1>1. CASE DOMAIN t = {}
  BY <1>1, SessionAssumption DEF NewId, TypeOK
<1>2. CASE DOMAIN t # {}
  <2>1. DOMAIN t \subseteq 0..MaxId /\ MaxId \in Nat
    BY <1>2, EmptyTable, SessionAssumption DEF TypeOK
  <2>2. LastId(t) \in DOMAIN t /\ \A j \in DOMAIN t : j <= LastId(t)
    BY <1>2, <2>1, HasLast DEF LastId
  <2> QED BY <1>2, <2>1, <2>2, SMT DEF NewId
<1> QED BY <1>1, <1>2

LEMMA AllocIsNew ==
    ASSUME TypeOK, live # Sessions
    PROVE  Alloc(live) \in Sessions /\ Alloc(live) \notin live
BY SessionAssumption DEF TypeOK

-----------------------------------------------------------------------------
(* What each kind of step does to the table, the sessions and whose they   *)
(* are, Book.                                                              *)

(* Looking a number up enters no session. *)
LEMMA LookedKeepsBook ==
    ASSUME TypeOK, Book, NEW i,
           table' = Looked(table, i), UNCHANGED <<live, history, id>>
    PROVE  Book'
<1>1. DOMAIN table' = DOMAIN table \union {i} /\ \A j \in DOMAIN table' : table'[j] = SessionOf(table, j)
  BY DEF Looked
<1>2. Distinct'
  BY <1>1 DEF Book, Distinct, SessionOf
<1>3. Listed' = Listed
  BY <1>1 DEF Listed, SessionOf
<1>4. ListedIsLive'
  BY <1>3 DEF Book, ListedIsLive, history
<1>5. OwnSession'
  BY <1>1 DEF Book, OwnSession, SessionOf, history
<1> QED BY <1>2, <1>4, <1>5 DEF Book

LEMMA SameKeepsBook ==
    ASSUME Book, UNCHANGED <<table, live, history, id>>
    PROVE  Book'
BY DEF Book, Distinct, OwnSession, ListedIsLive, Listed, history

(* A table without a session is in order when nobody owns one, and no      *)
(* session is there or they are known to be dropped.                       *)
LEMMA ForgottenBook ==
    ASSUME own' = Nobody, Listed' = {}, live' = {} \/ dropped'
    PROVE  Book'
<1>1. Distinct'
  BY DEF Distinct, Listed
<1>2. OwnSession'
  BY DEF OwnSession, Nobody
<1> QED BY <1>1, <1>2 DEF Book, ListedIsLive

LEMMA NothingListed ==
    (table' = Empty \/ table' = Looked(Empty, 0)) => Listed' = {}
BY DEF Listed, Looked, SessionOf, Empty

(* A new session, entered under a new number into t, the table or what is  *)
(* left of it. *)
LEMMA CreatedBook ==
    ASSUME TypeOK, Book, NEW c \in Clients, NEW t,
           Create(c, t), dropped' = dropped,
           \/ t = table /\ own' = [own EXCEPT ![c] = Alloc(live)] /\ strayed' = strayed
           \/ t = Empty /\ own' = [Nobody EXCEPT ![c] = Alloc(live)] /\ live = {}
    PROVE  Book'
<1> DEFINE n == NewId(t)
           s == Alloc(live)
<1>1. n \in Nat /\ n \notin DOMAIN t
  BY NewIdIsNew
<1>2. s \in Sessions /\ s \notin live /\ s # None
  BY AllocIsNew, SessionAssumption DEF Create
<1>3. /\ DOMAIN table' = DOMAIN t \union {n} /\ table'[n] = s
      /\ \A j \in DOMAIN t : table'[j] = t[j]
  BY <1>1 DEF Create, Entered
<1>4. live' = live \union {s} /\ id' = [id EXCEPT ![c] = n]
  BY DEF Create
<1> HIDE DEF n, s
<1>5. CASE t = table /\ own' = [own EXCEPT ![c] = Alloc(live)] /\ strayed' = strayed
  <2>1. \A j \in DOMAIN table : table[j] # s
    BY <1>2 DEF Book, ListedIsLive, Listed
  <2>2. Distinct'
    BY <1>3, <1>5, <2>1 DEF Book, Distinct
  <2>3. Listed' = Listed \union {s}
    BY <1>2, <1>3, <1>5 DEF Listed
  <2>4. ListedIsLive'
    BY <1>4, <2>3 DEF Book, ListedIsLive
  <2>5. OwnSession'
    <3>1. own' = [own EXCEPT ![c] = s] /\ own'[c] = s /\ id'[c] = n
      BY <1>4, <1>5 DEF s, TypeOK
    <3>2. \A e \in Clients : e # c => own'[e] = own[e] /\ id'[e] = id[e]
      BY <1>4, <3>1 DEF TypeOK
    <3>3. SUFFICES ASSUME ~strayed
                   PROVE  /\ \A e \in Clients : own'[e] # None =>
                               id'[e] \in DOMAIN table' /\ table'[id'[e]] = own'[e] /\ own'[e] \in live'
                          /\ \A e, f \in Clients : own'[e] # None /\ own'[e] = own'[f] => e = f
      BY <1>5 DEF OwnSession
    <3>4. \A e \in Clients : own[e] # None =>
             id[e] \in DOMAIN table /\ table[id[e]] = own[e] /\ own[e] \in live
      BY <3>3 DEF Book, OwnSession
    <3>5. \A e, f \in Clients : own[e] # None /\ own[e] = own[f] => e = f
      BY <3>3 DEF Book, OwnSession
    <3> QED BY <1>2, <1>3, <1>4, <1>5, <3>1, <3>2, <3>4, <3>5
  <2> QED BY <2>2, <2>4, <2>5 DEF Book
<1>6. CASE t = Empty /\ own' = [Nobody EXCEPT ![c] = Alloc(live)] /\ live = {}
  <2>1. DOMAIN table' = {n}
    BY <1>3, <1>6, EmptyTable
  <2>2. Distinct' /\ Listed' = {s}
    BY <1>2, <1>3, <2>1 DEF Distinct, Listed
  <2>3. ListedIsLive'
    BY <1>4, <1>6, <2>2 DEF ListedIsLive
  <2>4. own'[c] = s /\ id'[c] = n /\ \A e \in Clients : e # c => own'[e] = None
    BY <1>4, <1>6 DEF Nobody, s, TypeOK
  <2>5. OwnSession'
    BY <1>2, <1>3, <1>4, <2>1, <2>4 DEF OwnSession
  <2> QED BY <2>2, <2>3, <2>5 DEF Book
<1> QED BY <1>5, <1>6

(* Ending a session ends no other, as no two entries name the same. *)
LEMMA RemovedBook ==
    ASSUME TypeOK, Off, Book, NEW c \in Clients,
           RemoveSession(c), id' = [id EXCEPT ![c] = 0], dropped' = dropped
    PROVE  Book'
<1> DEFINE s == SessionOf(table, id[c])
<1>1. CASE Serving
  <2>1. /\ live' = live \ {s}
        /\ DOMAIN table' = DOMAIN table \ {id[c]}
        /\ \A j \in DOMAIN table' : table'[j] = table[j]
        /\ own' = [own EXCEPT ![c] = None]
        /\ strayed' = (strayed \/ (own[c] = None /\ s # None))
    BY <1>1 DEF RemoveSession, Erased
  <2>2. \A j \in DOMAIN table' : table[j] # None => table[j] # s
    BY <2>1 DEF Book, Distinct, SessionOf
  <2>3. id[c] \in DOMAIN table => s = table[id[c]]
    BY DEF SessionOf
  <2>4. None \notin live
    BY SessionAssumption DEF TypeOK
  <2> HIDE DEF s
  <2>5. Distinct'
    BY <2>1 DEF Book, Distinct
  <2>6. Listed' = Listed \ {s}
    <3>1. \A j \in DOMAIN table : table[j] # None /\ table[j] # s => j \in DOMAIN table'
      BY <2>1, <2>3
    <3>2. \A x : x \in Listed' <=> \E j \in DOMAIN table' : x = table[j] /\ x # None
      BY <2>1 DEF Listed
    <3>3. \A x : x \in Listed <=> \E j \in DOMAIN table : x = table[j] /\ x # None
      BY DEF Listed
    <3>4. DOMAIN table' \subseteq DOMAIN table
      BY <2>1
    <3> QED BY <2>2, <3>1, <3>2, <3>3, <3>4
  <2>7. ListedIsLive'
    BY <2>1, <2>6 DEF Book, ListedIsLive
  <2>8. OwnSession'
    <3>1. SUFFICES ASSUME ~strayed, ~(own[c] = None /\ s # None)
                   PROVE  /\ \A e \in Clients : own'[e] # None =>
                               id'[e] \in DOMAIN table' /\ table'[id'[e]] = own'[e] /\ own'[e] \in live'
                          /\ \A e, f \in Clients : own'[e] # None /\ own'[e] = own'[f] => e = f
      BY <2>1 DEF OwnSession
    <3>2. own'[c] = None /\ \A e \in Clients : e # c => own'[e] = own[e] /\ id'[e] = id[e]
      BY <2>1 DEF TypeOK
    <3>3. \A e \in Clients : own[e] # None =>
             id[e] \in DOMAIN table /\ table[id[e]] = own[e] /\ own[e] \in live
      BY <3>1 DEF Book, OwnSession
    <3>4. \A e, f \in Clients : own[e] # None /\ own[e] = own[f] => e = f
      BY <3>1 DEF Book, OwnSession
    <3>5. \A e \in Clients : e # c /\ own[e] # None => id[e] # id[c] /\ own[e] # s
      <4>1. SUFFICES ASSUME NEW e \in Clients, e # c, own[e] # None
                     PROVE  id[e] # id[c] /\ own[e] # s
        OBVIOUS
      <4>2. CASE own[c] = None
        BY <3>1, <3>3, <4>1, <4>2 DEF s, SessionOf
      <4>3. CASE own[c] # None
        <5>1. s = own[c]
          BY <3>3, <4>3 DEF s, SessionOf
        <5> QED BY <3>3, <3>4, <4>1, <4>3, <5>1
      <4> QED BY <4>2, <4>3
    <3> QED BY <2>1, <3>2, <3>3, <3>4, <3>5
  <2> QED BY <2>5, <2>7, <2>8 DEF Book
<1>2. CASE ~Serving
  <2>1. UNCHANGED <<table, live, own, strayed>>
    BY <1>2 DEF RemoveSession
  <2>2. live = {}
    BY <1>2 DEF Serving, Off, TypeOK
  <2>3. OwnSession'
    BY <2>1, <2>2 DEF Book, OwnSession
  <2> QED BY <2>1, <2>3 DEF Book, Distinct, ListedIsLive, Listed
<1> QED BY <1>1, <1>2
-----------------------------------------------------------------------------
(* The steps. *)

LEMMA LookedType ==
    ASSUME TypeOK, NEW i \in 0..MaxId, table' = Looked(table, i)
    PROVE  DOMAIN table' \subseteq 0..MaxId /\ \A j \in DOMAIN table' : table'[j] \in Sessions \union {None}
BY DEF TypeOK, Looked, SessionOf

LEMMA EmptyType ==
    ASSUME table' = Empty \/ table' = Looked(Empty, 0)
    PROVE  DOMAIN table' \subseteq 0..MaxId /\ \A j \in DOMAIN table' : table'[j] \in Sessions \union {None}
BY SessionAssumption DEF Empty, Looked, SessionOf

(* Each step keeps the types. *)
LEMMA TypeKept == TypeOK /\ [Next]_vars => TypeOK'
<1> SUFFICES ASSUME TypeOK, [Next]_vars PROVE TypeOK'
  OBVIOUS
<1> USE DEF server, history, To, Happens
<1>1. ASSUME NEW c \in Clients, KeyDown(c) PROVE TypeOK'
  <2>1. id[c] \in 0..MaxId
    BY DEF TypeOK
  <2>2. DOMAIN table' \subseteq 0..MaxId /\ \A j \in DOMAIN table' : table'[j] \in Sessions \union {None}
    BY <1>1, <2>1, LookedType DEF KeyDown, FindSession, TypeOK
  <2>3. at' \in [Clients -> {"idle", "end", "start", "check", "key", "leave"}]
    BY <1>1 DEF KeyDown, TypeOK
  <2> QED BY <1>1, <2>2, <2>3 DEF KeyDown, FindSession, TypeOK
<1>2. ASSUME NEW c \in Clients, EndSession(c) PROVE TypeOK'
  <2>1. DOMAIN table' \subseteq 0..MaxId /\ \A j \in DOMAIN table' : table'[j] \in Sessions \union {None}
    BY <1>2 DEF EndSession, RemoveSession, Erased, TypeOK
  <2>2. own' \in [Clients -> Sessions \union {None}] /\ active' \in 0..MaxId /\ live' \subseteq Sessions
    BY <1>2, SessionAssumption DEF EndSession, RemoveSession, TypeOK
  <2>3. strayed' \in BOOLEAN
    BY <1>2 DEF EndSession, RemoveSession, TypeOK
  <2>4. id' \in [Clients -> 0..MaxId]
    BY <1>2, SessionAssumption DEF EndSession, TypeOK
  <2>5. at' \in [Clients -> {"idle", "end", "start", "check", "key", "leave"}]
    BY <1>2 DEF EndSession, TypeOK
  <2> QED BY <1>2, <2>1, <2>2, <2>3, <2>4, <2>5 DEF EndSession, TypeOK
<1>3. ASSUME NEW c \in Clients, StartSession(c) PROVE TypeOK'
  <2>1. at' \in [Clients -> {"idle", "end", "start", "check", "key", "leave"}]
    BY <1>3 DEF StartSession, TypeOK
  <2>2. ASSUME NEW t, t = table \/ t = Empty, Create(c, t)
        PROVE  /\ DOMAIN table' \subseteq 0..MaxId
               /\ \A j \in DOMAIN table' : table'[j] \in Sessions \union {None}
               /\ live' \subseteq Sessions /\ active' \in 0..MaxId
               /\ id' \in [Clients -> 0..MaxId] /\ Alloc(live) \in Sessions
    <3>1. NewId(t) \in 0..MaxId
      BY <2>2, NewIdIsNew, SessionAssumption DEF Create
    <3>2. Alloc(live) \in Sessions
      BY <2>2, AllocIsNew DEF Create
    <3>3. DOMAIN t \subseteq 0..MaxId /\ \A j \in DOMAIN t : t[j] \in Sessions \union {None}
      BY <2>2, EmptyTable DEF TypeOK
    <3>4. DOMAIN table' = DOMAIN t \union {NewId(t)}
          /\ \A j \in DOMAIN table' : table'[j] = IF j = NewId(t) THEN Alloc(live) ELSE t[j]
      BY <2>2 DEF Create, Entered
    <3>5. DOMAIN table' \subseteq 0..MaxId /\ \A j \in DOMAIN table' : table'[j] \in Sessions \union {None}
      BY <3>1, <3>2, <3>3, <3>4
    <3> QED BY <2>2, <3>1, <3>2, <3>5 DEF Create, TypeOK
  <2>3. CASE AddSession(c)
    <3>1. CASE Serving /\ Create(c, table) /\ own' = [own EXCEPT ![c] = Alloc(live)]
               /\ UNCHANGED <<disabled, modified, strayed>>
      BY <1>3, <2>1, <2>2, <3>1 DEF StartSession, TypeOK
    <3>2. CASE Initialize /\ Create(c, Empty) /\ own' = [Nobody EXCEPT ![c] = Alloc(live)] /\ strayed' = FALSE
      <4>1. own' \in [Clients -> Sessions \union {None}]
        BY <2>2, <3>2 DEF Nobody
      <4>2. disabled' \in BOOLEAN /\ modified' \in BOOLEAN
        BY <3>2 DEF Initialize, StaysDisabled, Held, TypeOK
      <4> QED BY <1>3, <2>1, <2>2, <3>2, <4>1, <4>2 DEF StartSession, TypeOK
    <3>3. CASE Initialize /\ Forget(Empty) /\ id' = [id EXCEPT ![c] = 0] /\ UNCHANGED <<active, live>>
      <4>1. own' \in [Clients -> Sessions \union {None}]
        BY <3>3 DEF Nobody, Forget
      <4>2. disabled' \in BOOLEAN /\ modified' \in BOOLEAN
        BY <3>3 DEF Initialize, StaysDisabled, Held, TypeOK
      <4>3. id' \in [Clients -> 0..MaxId]
        BY <3>3, SessionAssumption DEF TypeOK
      <4>4. DOMAIN table' \subseteq 0..MaxId /\ \A j \in DOMAIN table' : table'[j] \in Sessions \union {None}
        BY <3>3, EmptyType DEF Forget
      <4> QED BY <1>3, <2>1, <3>3, <4>1, <4>2, <4>3, <4>4 DEF StartSession, Forget, TypeOK
    <3> QED BY <2>3, <3>1, <3>2, <3>3 DEF AddSession
  <2>4. CASE UNCHANGED <<disabled, table, active, live, modified, id, own, strayed>>
    BY <1>3, <2>1, <2>4 DEF StartSession, TypeOK
  <2> QED BY <1>3, <2>3, <2>4 DEF StartSession
<1>4. ASSUME NEW c \in Clients, Check(c) PROVE TypeOK'
  <2>1. id[c] \in 0..MaxId
    BY DEF TypeOK
  <2>2. DOMAIN table' \subseteq 0..MaxId /\ \A j \in DOMAIN table' : table'[j] \in Sessions \union {None}
    BY <1>4, <2>1, LookedType DEF Check, FindSession, TypeOK
  <2>3. at' \in [Clients -> {"idle", "end", "start", "check", "key", "leave"}]
    BY <1>4 DEF Check, TypeOK
  <2> QED BY <1>4, <2>2, <2>3 DEF Check, FindSession, TypeOK
<1>5. ASSUME NEW c \in Clients, ProcessKey(c) \/ Call(c) PROVE TypeOK'
  <2>1. id[c] \in 0..MaxId
    BY DEF TypeOK
  <2>2. DOMAIN table' \subseteq 0..MaxId /\ \A j \in DOMAIN table' : table'[j] \in Sessions \union {None}
    BY <1>5, <2>1, LookedType DEF ProcessKey, Call, Called, TypeOK
  <2>3. at' \in [Clients -> {"idle", "end", "start", "check", "key", "leave"}]
    BY <1>5 DEF ProcessKey, Call, TypeOK
  <2> QED BY <1>5, <2>1, <2>2, <2>3 DEF ProcessKey, Call, Called, TypeOK
<1>6. ASSUME NEW c \in Clients, FocusOut(c) PROVE TypeOK'
  BY <1>6, SessionAssumption DEF FocusOut, TypeOK
<1>7. ASSUME NEW c \in Clients, Deactivate(c) PROVE TypeOK'
  BY <1>7, SessionAssumption DEF Deactivate, TypeOK
<1>8. ASSUME NEW c \in Clients, AppEnds(c) PROVE TypeOK'
  BY <1>8, SessionAssumption DEF AppEnds, TypeOK
<1>9. CASE TrayOption
  <2>1. DOMAIN table' \subseteq 0..MaxId /\ \A j \in DOMAIN table' : table'[j] \in Sessions \union {None}
    BY <1>9, LookedType DEF TrayOption, TypeOK
  <2> QED BY <1>9, <2>1 DEF TrayOption, TypeOK
<1>10. CASE ServerEnds
  <2>1. DOMAIN table' \subseteq 0..MaxId /\ \A j \in DOMAIN table' : table'[j] \in Sessions \union {None}
    BY <1>10, EmptyType DEF ServerEnds, Forget
  <2>2. own' \in [Clients -> Sessions \union {None}]
    BY <1>10 DEF ServerEnds, Forget, Nobody
  <2>3. active' \in 0..MaxId /\ events' \in 0..MaxEvents
    BY <1>10, SessionAssumption DEF ServerEnds, TypeOK
  <2> QED BY <1>10, <2>1, <2>2, <2>3 DEF ServerEnds, Forget, TypeOK
<1>11. CASE ServerStarts
  BY <1>11 DEF ServerStarts, Initialize, StaysDisabled, Held, TypeOK
<1>12. CASE Edit
  BY <1>12, SessionAssumption DEF Edit, TypeOK
<1>13. CASE Lock
  BY <1>13, SessionAssumption DEF Lock, TypeOK
<1>14. CASE Tell
  <2>1. CASE StartMaintenance /\ told' = TRUE
    <3>1. DOMAIN table' \subseteq 0..MaxId /\ \A j \in DOMAIN table' : table'[j] \in Sessions \union {None}
      BY <2>1, EmptyType DEF StartMaintenance, Forget
    <3>2. own' \in [Clients -> Sessions \union {None}]
      BY <2>1 DEF StartMaintenance, Forget, Nobody
    <3>3. active' \in 0..MaxId
      BY <2>1, SessionAssumption DEF StartMaintenance
    <3> QED BY <1>14, <2>1, <3>1, <3>2, <3>3 DEF Tell, StartMaintenance, Forget, TypeOK
  <2>2. CASE UNCHANGED <<server, history>> /\ told' = FALSE
    BY <1>14, <2>2 DEF Tell, TypeOK
  <2> QED BY <1>14, <2>1, <2>2 DEF Tell
<1>15. CASE Unlock
  BY <1>15 DEF Unlock, TypeOK
<1>16. CASE Resume
  <2>1. DOMAIN table' \subseteq 0..MaxId /\ \A j \in DOMAIN table' : table'[j] \in Sessions \union {None}
    BY <1>16, EmptyType DEF Resume, EndMaintenance, Forget
  <2>2. disabled' \in BOOLEAN /\ modified' \in BOOLEAN
    BY <1>16 DEF Resume, EndMaintenance, Initialize, StaysDisabled, Held, TypeOK
  <2>3. dropped' \in BOOLEAN
    BY <1>16 DEF Resume, EndMaintenance, TypeOK
  <2> QED BY <1>16, <2>1, <2>2, <2>3 DEF Resume, EndMaintenance, Forget, Nobody, TypeOK
<1>17. CASE Quit
  BY <1>17 DEF Quit, TypeOK
<1>18. ASSUME NEW c \in Clients, Point(c) PROVE TypeOK'
  <2>1. id[c] \in 0..MaxId
    BY DEF TypeOK
  <2>2. DOMAIN table' \subseteq 0..MaxId /\ \A j \in DOMAIN table' : table'[j] \in Sessions \union {None}
    BY <1>18, <2>1, LookedType DEF Point, TypeOK
  <2> QED BY <1>18, <2>2 DEF Point, TypeOK
<1>19. CASE UNCHANGED vars
  BY <1>19 DEF vars, TypeOK
<1> QED
  BY <1>1, <1>2, <1>3, <1>4, <1>5, <1>6, <1>7, <1>8, <1>9, <1>10, <1>11, <1>12, <1>13, <1>14,
     <1>15, <1>16, <1>17, <1>18, <1>19 DEF Next, Client
(* A server that may not serve has no session. *)
LEMMA OffKept == TypeOK /\ Off /\ [Next]_vars => Off'
<1> SUFFICES ASSUME TypeOK, Off, [Next]_vars PROVE Off'
  OBVIOUS
<1> USE DEF server, Off
<1>1. ASSUME NEW c \in Clients, KeyDown(c) \/ Check(c) \/ ProcessKey(c) \/ Call(c) \/ Point(c)
                                 \/ FocusOut(c) \/ Deactivate(c) \/ AppEnds(c)
      PROVE  Off'
  BY <1>1 DEF KeyDown, Check, ProcessKey, Call, Point, FocusOut, Deactivate, AppEnds, FindSession,
              Called
<1>2. ASSUME NEW c \in Clients, EndSession(c) PROVE Off'
  BY <1>2 DEF EndSession, RemoveSession, Serving
<1>3. ASSUME NEW c \in Clients, StartSession(c) PROVE Off'
  BY <1>3 DEF StartSession, AddSession, Serving, Initialize, StaysDisabled, Create, TypeOK
<1>4. CASE TrayOption \/ Edit \/ Lock \/ Unlock \/ Quit
  <2>1. UNCHANGED <<running, disabled, live>>
    BY <1>4 DEF TrayOption, Edit, Lock, Unlock, Quit
  <2> QED BY <2>1
<1>5. CASE ServerEnds
  BY <1>5 DEF ServerEnds
<1>6. CASE ServerStarts
  BY <1>6 DEF ServerStarts
<1>7. CASE Tell
  BY <1>7 DEF Tell, StartMaintenance
<1>8. CASE Resume
  BY <1>8 DEF Resume, EndMaintenance
<1>9. CASE UNCHANGED vars
  BY <1>9 DEF vars
<1> QED
  BY <1>1, <1>2, <1>3, <1>4, <1>5, <1>6, <1>7, <1>8, <1>9 DEF Next, Client

LEMMA ToldKept == TypeOK /\ Told /\ [Next]_vars => Told'
BY DEF Told, Next, Client, vars, KeyDown, EndSession, StartSession, Check, ProcessKey, Call, Point, FocusOut,
   Deactivate, AppEnds, TrayOption, ServerEnds, ServerStarts, Edit, Lock, Tell, Unlock, Resume, Quit, TypeOK

(* While the deployer holds its mutex nobody is let in: a server that is   *)
(* asked for a session finds the mutex, and so does one that starts.       *)
LEMMA ExcludesKept ==
    TypeOK /\ Off /\ Told /\ MaintenanceExcludes /\ [Next]_vars => MaintenanceExcludes'
<1> SUFFICES ASSUME TypeOK, Off, Told, MaintenanceExcludes, [Next]_vars, told', Held'
             PROVE  disabled' /\ live' = {}
  BY DEF MaintenanceExcludes
<1> USE DEF server, MaintenanceExcludes, Held
<1>1. ASSUME NEW c \in Clients, KeyDown(c) \/ Check(c) \/ ProcessKey(c) \/ Call(c) \/ Point(c)
                                 \/ FocusOut(c) \/ Deactivate(c) \/ AppEnds(c)
      PROVE  disabled' /\ live' = {}
  BY <1>1 DEF KeyDown, Check, ProcessKey, Call, Point, FocusOut, Deactivate, AppEnds, FindSession,
              Called
<1>2. ASSUME NEW c \in Clients, EndSession(c) PROVE disabled' /\ live' = {}
  BY <1>2 DEF EndSession, RemoveSession, Serving
<1>3. ASSUME NEW c \in Clients, StartSession(c) PROVE disabled' /\ live' = {}
  <2>1. told /\ Held
    BY <1>3 DEF StartSession
  <2>2. disabled /\ live = {}
    BY <2>1
  <2>3. StaysDisabled
    BY <2>1 DEF StaysDisabled
  <2>4. CASE Serving
    BY <2>2, <2>4 DEF Serving
  <2>5. CASE Initialize /\ UNCHANGED <<active, live>>
    BY <2>2, <2>3, <2>5 DEF Initialize
  <2>6. CASE UNCHANGED <<disabled, table, active, live, modified, id, own, strayed>>
    BY <2>2, <2>6
  <2> QED BY <1>3, <2>3, <2>4, <2>5, <2>6 DEF StartSession, AddSession
<1>4. CASE TrayOption \/ Edit \/ Unlock \/ Quit \/ ServerEnds
  BY <1>4 DEF TrayOption, Edit, Unlock, Quit, ServerEnds
<1>5. CASE Lock
  BY <1>5 DEF Lock, Told
<1>6. CASE ServerStarts
  BY <1>6 DEF ServerStarts, Initialize, StaysDisabled
<1>7. CASE Tell
  BY <1>7 DEF Tell, StartMaintenance
<1>8. CASE Resume
  BY <1>8 DEF Resume
<1>9. CASE UNCHANGED vars
  BY <1>9 DEF vars
<1> QED
  BY <1>1, <1>2, <1>3, <1>4, <1>5, <1>6, <1>7, <1>8, <1>9 DEF Next, Client

LEMMA BookKept == TypeOK /\ Off /\ Book /\ [Next]_vars => Book'
<1> SUFFICES ASSUME TypeOK, Off, Book, [Next]_vars PROVE Book'
  OBVIOUS
<1> USE DEF server
<1>1. ASSUME NEW c \in Clients, NEW i, FindSession(i) \/ Called(i), UNCHANGED id PROVE Book'
  <2>1. UNCHANGED <<live, history, id>>
    BY <1>1 DEF FindSession, Called
  <2>2. table' = Looked(table, i) \/ table' = table
    BY <1>1 DEF FindSession, Called
  <2> QED BY <2>1, <2>2, LookedKeepsBook, SameKeepsBook
<1>2. ASSUME NEW c \in Clients, KeyDown(c) \/ Check(c) PROVE Book'
  <2>1. CASE UNCHANGED <<server, history, id>>
    BY <2>1, SameKeepsBook
  <2>2. CASE FindSession(id[c]) /\ UNCHANGED id
    BY <1>1, <2>2
  <2> QED BY <1>2, <2>1, <2>2 DEF KeyDown, Check
<1>3. ASSUME NEW c \in Clients, ProcessKey(c) \/ Call(c) PROVE Book'
  BY <1>1, <1>3 DEF ProcessKey, Call
<1>4. ASSUME NEW c \in Clients, EndSession(c) PROVE Book'
  BY <1>4, RemovedBook DEF EndSession
<1>5. ASSUME NEW c \in Clients, StartSession(c) PROVE Book'
  <2>1. CASE UNCHANGED <<disabled, table, active, live, modified, id, own, strayed>>
    BY <1>5, <2>1, SameKeepsBook DEF StartSession, history
  <2>2. CASE AddSession(c)
    <3>1. CASE Serving /\ Create(c, table) /\ own' = [own EXCEPT ![c] = Alloc(live)]
               /\ UNCHANGED <<disabled, modified, strayed>>
      BY <1>5, <3>1, CreatedBook DEF StartSession
    <3>2. CASE disabled /\ Create(c, Empty) /\ own' = [Nobody EXCEPT ![c] = Alloc(live)] /\ strayed' = FALSE
      <4>1. live = {}
        BY <3>2 DEF Off
      <4> QED BY <1>5, <3>2, <4>1, CreatedBook DEF StartSession
    <3>3. CASE disabled /\ Forget(Empty) /\ UNCHANGED <<active, live>>
      <4>1. live' = {} /\ own' = Nobody /\ Listed' = {}
        BY <3>3, NothingListed DEF Off, Forget
      <4> QED BY <4>1, ForgottenBook
    <3> QED BY <2>2, <3>1, <3>2, <3>3 DEF AddSession
  <2> QED BY <1>5, <2>1, <2>2 DEF StartSession
<1>6. ASSUME NEW c \in Clients, FocusOut(c) \/ Deactivate(c) PROVE Book'
  BY <1>6, SameKeepsBook DEF FocusOut, Deactivate
<1>7. ASSUME NEW c \in Clients, AppEnds(c) PROVE Book'
  <2>1. \A e \in Clients : own'[e] = None \/ (own'[e] = own[e] /\ id'[e] = id[e])
    BY <1>7 DEF AppEnds, TypeOK
  <2>2. OwnSession'
    BY <1>7, <2>1 DEF AppEnds, Book, OwnSession
  <2> QED BY <1>7, <2>2 DEF AppEnds, Book, Distinct, ListedIsLive, Listed
<1>8. CASE TrayOption \/ \E c \in Clients : Point(c)
  BY <1>8, LookedKeepsBook DEF TrayOption, Point
<1>9. CASE ServerEnds
  BY <1>9, NothingListed, ForgottenBook DEF ServerEnds, Forget
<1>10. CASE ServerStarts \/ Edit \/ Lock \/ Unlock \/ Quit
  BY <1>10, SameKeepsBook DEF ServerStarts, Edit, Lock, Unlock, Quit
<1>11. CASE Tell
  <2>1. CASE StartMaintenance
    BY <2>1, NothingListed, ForgottenBook DEF StartMaintenance, Forget
  <2> QED BY <1>11, <2>1, SameKeepsBook DEF Tell
<1>12. CASE Resume
  <2>1. own' = Nobody /\ Listed' = {} /\ (live' = {} \/ dropped')
    BY <1>12, NothingListed DEF Resume, EndMaintenance, Forget
  <2> QED BY <2>1, ForgottenBook
<1>13. CASE UNCHANGED vars
  BY <1>13, SameKeepsBook DEF vars
<1> QED
  BY <1>2, <1>3, <1>4, <1>5, <1>6, <1>7, <1>8, <1>9, <1>10, <1>11, <1>12, <1>13 DEF Next, Client

-----------------------------------------------------------------------------
LEMMA InitHolds == Init => IInv
<1> SUFFICES ASSUME Init PROVE IInv
  OBVIOUS
<1>1. TypeOK
  <2>1. table = Empty /\ DOMAIN table = {}
    BY EmptyTable DEF Init
  <2>2. id \in [Clients -> 0..MaxId] /\ active \in 0..MaxId /\ events \in 0..MaxEvents
    BY SessionAssumption DEF Init
  <2>3. own \in [Clients -> Sessions \union {None}]
    BY DEF Init, Nobody
  <2>4. at \in [Clients -> {"idle", "end", "start", "check", "key", "leave"}]
    BY DEF Init
  <2> QED BY <2>1, <2>2, <2>3, <2>4 DEF Init, TypeOK
<1>2. Book
  BY DEF Init, Book, Distinct, OwnSession, ListedIsLive, Listed, Empty, Nobody
<1> QED BY <1>1, <1>2 DEF Init, IInv, Off, Told, MaintenanceExcludes

LEMMA Invariance == Spec => []IInv
<1>1. IInv /\ [Next]_vars => IInv'
  BY TypeKept, OffKept, ToldKept, ExcludesKept, BookKept DEF IInv
<1> QED BY <1>1, InitHolds, PTL DEF Spec

(* Every variable keeps its type. *)
THEOREM TypeCorrect == Spec => []TypeOK
<1>1. IInv => TypeOK
  BY DEF IInv
<1> QED BY <1>1, Invariance, PTL

(* A client's number leads to its own session, until a client with a number *)
(* from before the last clearing ends another's (OwnSession).              *)
THEOREM SessionsAreOwn == Spec => []OwnSession
<1>1. IInv => OwnSession
  BY DEF IInv, Book
<1> QED BY <1>1, Invariance, PTL

(* No entry dangles, and no session is left without an entry unless the    *)
(* table of a serving server was cleared (ListedIsLive).                   *)
THEOREM TableIsLive == Spec => []ListedIsLive
<1>1. IInv => ListedIsLive
  BY DEF IInv, Book
<1> QED BY <1>1, Invariance, PTL

(* No session while a deployer that told the server works.                 *)
THEOREM DeployerIsAlone == Spec => []MaintenanceExcludes
<1>1. IInv => MaintenanceExcludes
  BY DEF IInv
<1> QED BY <1>1, Invariance, PTL
=============================================================================
