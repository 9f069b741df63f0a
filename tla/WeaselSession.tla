---------------------------- MODULE WeaselSession ----------------------------
(***************************************************************************)
(* The sessions of the server (RimeWithWeasel.cpp) and the clients that    *)
(* hold them: text services that ask for a session when a key finds they   *)
(* have none (WeaselTSF.cpp:265), and the deployer, which puts the server  *)
(* into maintenance while it works (Configurator.cpp:112).                 *)
(*                                                                         *)
(* A client knows its session by a number the server gave it; the server's *)
(* table maps numbers to librime sessions.  Each message is handled under  *)
(* one mutex (WeaselServerImpl.cpp:180), so a handler is one step; between *)
(* two messages of a client the others, the deployer and the end of a      *)
(* process may come.                                                       *)
(***************************************************************************)
EXTENDS Integers, FiniteSets

CONSTANTS
    Clients,     \* the text services
    Sessions,    \* the names librime's sessions can take: addresses, used again
    None,        \* no session
    Alloc(_),    \* the allocator: an address not in use
    Pids,        \* the process numbers the server can run under
    MaxId,       \* the largest session number explored
    MaxEvents    \* how many deployments, edits, ends of processes are explored

ASSUME SessionAssumption ==
    /\ None \notin Sessions
    /\ \A used \in SUBSET Sessions : used # Sessions => Alloc(used) \in Sessions \ used
    /\ Pids \subseteq Nat
    /\ MaxId \in Nat /\ MaxEvents \in Nat

VARIABLES
    \* the server
    running,     \* its process is there
    pid,         \* m_pid
    disabled,    \* m_disabled
    table,       \* m_session_status_map: number -> session_id
    active,      \* m_active_session
    live,        \* librime's sessions_
    modified,    \* the configuration is newer than what was compiled from it
    \* the clients
    id,          \* ClientImpl::session_id, 0 for none
    at,          \* what the client does next
    \* the deployer
    deployer,    \* where it is; its mutex is held while "locked" or "working"
    told,        \* the server was told of this deployment
    \* history
    own,         \* the session made for the number a client holds, None when the table was cleared since
    strayed,     \* a number from before the last clearing ended a session since
    dropped,     \* the table was cleared of sessions librime still has
    events

server == <<running, pid, disabled, table, active, live, modified>>
history == <<own, strayed, dropped>>
vars == <<server, id, at, deployer, told, history, events>>

Empty == [i \in {} |-> None]
Nobody == [c \in Clients |-> None]
Held == deployer \in {"locked", "working"}

SessionOf(t, i) == IF i \in DOMAIN t THEN t[i] ELSE None
(* to_session_id: looking a number up enters it *)
Looked(t, i) == [j \in DOMAIN t \union {i} |-> SessionOf(t, j)]
Entered(t, i, s) == [j \in DOMAIN t \union {i} |-> IF j = i THEN s ELSE t[j]]
Erased(t, i) == [j \in DOMAIN t \ {i} |-> t[j]]

LastId(t) == CHOOSE i \in DOMAIN t : \A j \in DOMAIN t : j <= i
NewId_Count(t) == pid + 1 + Cardinality(DOMAIN t)
NewId(t) == IF DOMAIN t = {} THEN pid + 1 ELSE LastId(t) + 1

Happens == events < MaxEvents /\ events' = events + 1

-----------------------------------------------------------------------------
(* The server's handlers. *)

Serving == running /\ ~disabled

(* Initialize.  When the workspace had to be compiled first, the server    *)
(* stays disabled until it is asked again.                                 *)
StaysDisabled_Unasked == modified
StaysDisabled == Held \/ modified
Initialize_Recompiles ==
    /\ disabled' = StaysDisabled
    /\ modified' = modified
Initialize ==
    /\ disabled' = StaysDisabled
    /\ modified' = (modified /\ Held)

(* Entries are forgotten; whose they were is no longer known. *)
Forget(t) == table' = t /\ own' = Nobody /\ strayed' = FALSE

EndMaintenance ==
    /\ IF disabled THEN Initialize ELSE UNCHANGED <<disabled, modified>>
    /\ Forget(Empty)
    /\ dropped' = (dropped \/ live # {})
    /\ UNCHANGED <<running, pid, active, live>>

StartMaintenance ==
    /\ disabled' = TRUE /\ active' = 0 /\ live' = {} /\ dropped' = FALSE
    /\ Forget(Looked(Empty, 0))
    /\ UNCHANGED <<running, pid, modified>>

(* FindSession *)
Finds(i) == Serving /\ SessionOf(table, i) \in live
FindSession(i) ==
    /\ table' = IF Serving THEN Looked(table, i) ELSE table
    /\ UNCHANGED <<running, pid, disabled, active, live, modified, history>>

(* A new session for c, entered into t. *)
Create(c, t) ==
    /\ NewId(t) <= MaxId /\ live # Sessions
    /\ live' = live \union {Alloc(live)}
    /\ table' = Entered(t, NewId(t), Alloc(live))
    /\ id' = [id EXCEPT ![c] = NewId(t)]
    /\ active' = NewId(t)
AddSession(c) ==
    \/ /\ Serving
       /\ Create(c, table)
       /\ own' = [own EXCEPT ![c] = Alloc(live)]
       /\ UNCHANGED <<disabled, modified, strayed>>
    \/ /\ running /\ disabled /\ ~StaysDisabled
       /\ Initialize
       /\ Create(c, Empty)
       /\ own' = [Nobody EXCEPT ![c] = Alloc(live)]
       /\ strayed' = FALSE
    \/ /\ running /\ disabled /\ StaysDisabled
       /\ Initialize
       /\ Forget(Empty)
       /\ id' = [id EXCEPT ![c] = 0]
       /\ UNCHANGED <<active, live>>

RemoveSession_KeepsLive(c) ==
    /\ live' = live
    /\ IF Serving
       THEN /\ table' = Erased(table, id[c])
            /\ active' = 0
            /\ own' = [own EXCEPT ![c] = None]
            /\ strayed' = (strayed \/ (own[c] = None /\ SessionOf(table, id[c]) # None))
       ELSE UNCHANGED <<table, active, own, strayed>>
RemoveSession(c) ==
    LET s == SessionOf(table, id[c])
    IN  IF Serving
        THEN /\ live' = live \ {s}
             /\ table' = Erased(table, id[c])
             /\ active' = 0
             /\ own' = [own EXCEPT ![c] = None]
             /\ strayed' = (strayed \/ (own[c] = None /\ s # None))
        ELSE UNCHANGED <<live, table, active, own, strayed>>

-----------------------------------------------------------------------------
(* The clients: _EnsureServerConnected before each key. *)

To(c, place) == at' = [at EXCEPT ![c] = place]

KeyDown(c) ==
    /\ at[c] = "idle"
    /\ IF id[c] = 0
       THEN To(c, "start") /\ UNCHANGED <<server, history>>
       ELSE To(c, IF Finds(id[c]) THEN "key" ELSE "end") /\ FindSession(id[c])
    /\ UNCHANGED <<id, deployer, told, events>>

(* Disconnect, before connecting anew or for good. *)
EndSession(c) ==
    /\ at[c] \in {"end", "leave"}
    /\ RemoveSession(c)
    /\ id' = [id EXCEPT ![c] = 0]
    /\ To(c, IF at[c] = "end" THEN "start" ELSE "idle")
    /\ UNCHANGED <<running, pid, disabled, modified, deployer, told, dropped, events>>

StartSession(c) ==
    /\ at[c] = "start"
    /\ \/ AddSession(c)
       \/ ~running /\ UNCHANGED <<disabled, table, active, live, modified, id, own, strayed>>
    /\ To(c, "check")
    /\ UNCHANGED <<running, pid, deployer, told, dropped, events>>

Check(c) ==
    /\ at[c] = "check"
    /\ IF id[c] = 0
       THEN To(c, "idle") /\ UNCHANGED <<server, history>>
       ELSE To(c, IF Finds(id[c]) THEN "key" ELSE "idle") /\ FindSession(id[c])
    /\ UNCHANGED <<id, deployer, told, events>>

(* What a call by number does to the table: a key, a commit, a clearing,   *)
(* the focus, the caret's position.                                        *)
Called(i) ==
    /\ IF Serving THEN table' = Looked(table, i) /\ active' = i ELSE UNCHANGED <<table, active>>
    /\ UNCHANGED <<running, pid, disabled, live, modified, history>>

ProcessKey(c) ==
    /\ at[c] = "key"
    /\ Called(id[c])
    /\ To(c, "idle")
    /\ UNCHANGED <<id, deployer, told, events>>

Call(c) ==
    /\ at[c] = "idle" /\ id[c] # 0
    /\ Called(id[c])
    /\ UNCHANGED <<id, at, deployer, told, events>>

(* A candidate is chosen or highlighted, the page is turned: the number is *)
(* looked up.  The last two do not ask whether the server is disabled.     *)
Point(c) ==
    /\ at[c] = "idle" /\ id[c] # 0 /\ running
    /\ table' = Looked(table, id[c])
    /\ UNCHANGED <<running, pid, disabled, active, live, modified, id, at, deployer, told, history, events>>

FocusOut(c) ==
    /\ at[c] = "idle" /\ running
    /\ active' = 0
    /\ UNCHANGED <<running, pid, disabled, table, live, modified, id, at, deployer, told, history, events>>

(* The tray's options go to the active session, whether there is one or not. *)
TrayOption ==
    /\ running
    /\ table' = Looked(table, active)
    /\ UNCHANGED <<running, pid, disabled, active, live, modified, id, at, deployer, told, history, events>>

Deactivate(c) ==
    /\ at[c] = "idle" /\ id[c] # 0
    /\ Happens
    /\ To(c, "leave")
    /\ UNCHANGED <<server, id, deployer, told, history>>

(* The application ends without a word; the next one starts without one. *)
AppEnds(c) ==
    /\ Happens
    /\ id' = [id EXCEPT ![c] = 0]
    /\ own' = [own EXCEPT ![c] = None]
    /\ To(c, "idle")
    /\ UNCHANGED <<server, deployer, told, strayed, dropped>>

-----------------------------------------------------------------------------
(* The server's process. *)

ServerEnds ==
    /\ running /\ Happens
    /\ running' = FALSE /\ disabled' = TRUE /\ active' = 0 /\ live' = {} /\ dropped' = FALSE
    /\ Forget(Empty)
    /\ UNCHANGED <<pid, modified, id, at, deployer, told>>

ServerStarts ==
    /\ ~running
    /\ running' = TRUE
    /\ pid' \in Pids
    /\ Initialize
    /\ UNCHANGED <<table, active, live, id, at, deployer, told, history, events>>

(* The user edits a file of the configuration. *)
Edit ==
    /\ Happens
    /\ modified' = TRUE
    /\ UNCHANGED <<running, pid, disabled, table, active, live, id, at, deployer, told, history>>

-----------------------------------------------------------------------------
(* The deployer. *)

Lock ==
    /\ deployer = "idle" /\ Happens
    /\ deployer' = "locked"
    /\ UNCHANGED <<server, id, at, told, history>>

(* The server is told, unless it cannot be reached. *)
Tell ==
    /\ deployer = "locked"
    /\ deployer' = "working"
    /\ \/ running /\ told' = TRUE /\ StartMaintenance
       \/ told' = FALSE /\ UNCHANGED <<server, history>>
    /\ UNCHANGED <<id, at, events>>

(* The mutex is closed before the server is resumed.  A deployment compiles *)
(* the workspace; the dictionary tools do not.                             *)
Unlock ==
    /\ deployer = "working"
    /\ deployer' = "unlocked"
    /\ modified' \in {modified, FALSE}
    /\ UNCHANGED <<running, pid, disabled, table, active, live, id, at, told, history, events>>

Resume ==
    /\ deployer = "unlocked"
    /\ deployer' = "idle" /\ told' = FALSE
    /\ running /\ EndMaintenance
    /\ UNCHANGED <<id, at, events>>

(* The deployer ends without resuming the server: it fails, is ended, or   *)
(* finds no server.                                                        *)
Quit ==
    /\ deployer # "idle"
    /\ deployer' = "idle" /\ told' = FALSE
    /\ UNCHANGED <<server, id, at, history, events>>

-----------------------------------------------------------------------------
Init ==
    /\ running = FALSE /\ pid \in Pids /\ disabled = TRUE /\ table = Empty
    /\ active = 0 /\ live = {} /\ modified \in BOOLEAN
    /\ id = [c \in Clients |-> 0] /\ at = [c \in Clients |-> "idle"]
    /\ deployer = "idle" /\ told = FALSE
    /\ own = Nobody /\ strayed = FALSE /\ dropped = FALSE /\ events = 0

Client(c) ==
    \/ KeyDown(c) \/ EndSession(c) \/ StartSession(c) \/ Check(c) \/ ProcessKey(c)
Next ==
    \/ \E c \in Clients : Client(c) \/ Call(c) \/ Point(c) \/ FocusOut(c) \/ Deactivate(c) \/ AppEnds(c)
    \/ TrayOption \/ ServerEnds \/ ServerStarts \/ Edit
    \/ Lock \/ Tell \/ Unlock \/ Resume \/ Quit

Spec == Init /\ [][Next]_vars

(* Users type on; a deployment ends; a client that finds no server starts  *)
(* one (WeaselTSF.cpp:273).                                                *)
Fairness ==
    /\ \A c \in Clients : WF_vars(Client(c))
    /\ WF_vars(ServerStarts)
    /\ WF_vars(Tell \/ Unlock \/ Resume \/ Quit)
FairSpec == Spec /\ Fairness

-----------------------------------------------------------------------------
(* The server, its clients and the deployer keep their types. *)
TypeOK ==
    /\ running \in BOOLEAN /\ pid \in Pids /\ disabled \in BOOLEAN /\ modified \in BOOLEAN
    /\ DOMAIN table \subseteq 0..MaxId /\ \A i \in DOMAIN table : table[i] \in Sessions \union {None}
    /\ active \in 0..MaxId /\ live \subseteq Sessions
    /\ id \in [Clients -> 0..MaxId]
    /\ at \in [Clients -> {"idle", "end", "start", "check", "key", "leave"}]
    /\ deployer \in {"idle", "locked", "working", "unlocked"} /\ told \in BOOLEAN
    /\ own \in [Clients -> Sessions \union {None}]
    /\ strayed \in BOOLEAN /\ dropped \in BOOLEAN /\ events \in 0..MaxEvents

Listed == {table[i] : i \in DOMAIN table} \ {None}

(* The number a client was given leads to the librime session made for it, *)
(* and to nobody else's, however the others come, go and are numbered -    *)
(* until a client with a number from before the last clearing ends the     *)
(* session that has its number now (strayed).                              *)
OwnSession == ~strayed =>
    /\ \A c \in Clients : own[c] # None =>
        id[c] \in DOMAIN table /\ table[id[c]] = own[c] /\ own[c] \in live
    /\ \A c, e \in Clients : own[c] # None /\ own[c] = own[e] => c = e

(* No entry of the table dangles: the session it names is there.  And no   *)
(* librime session is without an entry, which nobody could end any more,   *)
(* unless EndMaintenance cleared the table of a server that was already    *)
(* serving again (RimeWithWeasel.cpp:486).                                 *)
ListedIsLive == Listed \subseteq live /\ (live = Listed \/ dropped)

(* While a deployer that told the server works on the dictionaries, the    *)
(* server has no session that could use them, although clients ask for     *)
(* sessions and the server may end and start again.                        *)
MaintenanceExcludes == told /\ Held => disabled /\ live = {}

(* Whoever types on is served again and again: no deployment, edit or end  *)
(* of a process leaves the server disabled or a client without a session.  *)
Served ==
    \A c \in Clients : []<>(at[c] = "key" /\ Finds(id[c]))
=============================================================================
