------------------------------ MODULE Sessions ------------------------------
(***************************************************************************)
(* The lthreads of the control core: start up (main.c, lthread_main.c,     *)
(* startup_config.c), the telnet server and its sessions (vty_server.c,    *)
(* vty_shell.c), the console (console_shell.c), the thread table they are  *)
(* registered in (thread_info.c), and the pager a command runs behind      *)
(* (command_shell.c), with the descriptors they open and close.            *)
(*                                                                         *)
(* The lthreads share one pthread and switch only where they sleep: an     *)
(* action is one turn of one of them. waitpid() is not an lthread call:    *)
(* while a session waits in it (`blocked`) no lthread runs. New            *)
(* descriptors get the lowest free number.                                 *)
(***************************************************************************)
EXTENDS Integers, Sequences, FiniteSets, FiniteSetsExt

CONSTANTS
  VTY_CLIENT_MAX,      \* telnet sessions at a time (5)
  THREAD_INFO_LIMIT,   \* entries of the thread table (16)
  FdLimit,             \* bound: descriptor numbers, enough for the bounds below
  MaxSessions,         \* bound: connections served
  MaxPaged,            \* bound: commands executed behind the pager
  MaxStarts            \* bound: workers and lthreads the operator starts

ASSUME SessionsAssumption ==
  /\ {VTY_CLIENT_MAX, THREAD_INFO_LIMIT, FdLimit} \subseteq Nat \ {0}
  /\ {MaxSessions, MaxPaged, MaxStarts} \subseteq Nat
  /\ FdLimit > VTY_CLIENT_MAX + MaxSessions + 2 * MaxPaged + 5

Slots == 0 .. VTY_CLIENT_MAX - 1

Fds == 0 .. FdLimit - 1

VARIABLES
  threads,      \* the thread table, 1 .. thread_info_size
  lthreads,     \* lthreads that run, sessions apart: Entry(name, n)
  client_fd,    \* client_info[].fd, -1 when the slot is free
  session,      \* the session of each slot
  fds,          \* the owner of each descriptor number
  force_quit,
  blocked,      \* the sessions in waitpid()
  count         \* ghost: [served, paged, slaves, starts, wild, crowded]

vars == <<threads, lthreads, client_fd, session, fds, force_quit, blocked, count>>

FREE == [kind |-> "free", of |-> 0]

NoSession ==
  [state |-> "none", thread_id |-> 0, eof |-> FALSE, is_paging |-> FALSE,
   pager |-> "none", pipefd |-> -1, opened |-> 0]

-----------------------------------------------------------------------------
(* Mutant: a hole in the table is not used again. *)
XFreeEntries(table) == {}

FreeEntries(table) == {i \in DOMAIN table : table[i] = FREE}

(* The thread table. Ids are counted from 1; thread_register() of a full    *)
(* table returns -1, here 0.                                                *)
Register(table, who) ==
  IF FreeEntries(table) # {} THEN [table EXCEPT ![Min(FreeEntries(table))] = who]
  ELSE IF Len(table) < THREAD_INFO_LIMIT THEN Append(table, who)
  ELSE table

RegisteredId(table) ==
  IF FreeEntries(table) # {} THEN Min(FreeEntries(table))
  ELSE IF Len(table) < THREAD_INFO_LIMIT THEN Len(table) + 1
  ELSE 0

(* Mutant: the last entry is moved into the hole. *)
XUnregisterMove(table, id) ==
  IF id = 0 THEN table
  ELSE SubSeq([table EXCEPT ![id] = table[Len(table)]], 1, Len(table) - 1)

(* thread_unregister(): no test of the id; that of a full table is outside. *)
Unregister(table, id) == IF id = 0 THEN table ELSE [table EXCEPT ![id] = FREE]

Entry(kind, of) == [kind |-> kind, of |-> of]

-----------------------------------------------------------------------------
(* Descriptors. *)
FreeFds(f) == {n \in Fds : f[n] = FREE}

Lowest(f) == Min(FreeFds(f))

Open(f, kind, of) == [f EXCEPT ![Lowest(f)] = Entry(kind, of)]

Close(f, n) == IF n \in Fds THEN [f EXCEPT ![n] = FREE] ELSE f

(* Descriptors opened, and kept, while a session pages: counted up to three.*)
Crowd(ses, n) ==
  [i \in Slots |-> IF ses[i].is_paging THEN [ses[i] EXCEPT !.opened = Min({3, @ + n})] ELSE ses[i]]

(* pager_start(): a pty pair and a pipe, then the reading end and the slave *)
(* are the child's.                                                         *)
PagerFds(f) ==
  LET f1 == Open(f, "kept", 0)
      f2 == Open(f1, "kept", 0)
      f3 == Open(f2, "pipe", 0)
      f4 == Open(f3, "pipe", 0)
  IN  [all |-> f4, slave |-> Lowest(f1), master |-> Lowest(f),
       reader |-> Lowest(f2), writer |-> Lowest(f3), pty |-> f2]

(* Mutant: the parent keeps its copy of the slave. *)
XParentCloses(p) == Close(p.all, p.reader)

ParentCloses(p) == Close(Close(p.all, p.reader), p.slave)

-----------------------------------------------------------------------------
Running == blocked = {}

Loops == Running /\ ~force_quit

(* main() and lthread_main(): the server and the startup shell. *)
Init ==
  /\ threads = <<Entry("lthread_main", 0), Entry("vty_server", 0), Entry("startup_config", 0)>>
  /\ lthreads = {Entry("vty_server", 0), Entry("startup_config", 0)}
  /\ client_fd = [i \in Slots |-> -1]
  /\ session = [i \in Slots |-> NoSession]
  /\ fds = [n \in Fds |-> IF n = 0 THEN Entry("listen", 0) ELSE FREE]
  /\ force_quit = FALSE
  /\ blocked = {}
  /\ count = [served |-> 0, paged |-> 0, slaves |-> 0, starts |-> 0,
              wild |-> FALSE, crowded |-> FALSE]

StartingUp == Entry("startup_config", 0) \in lthreads

(* The end of the configuration file closes the startup shell, and the      *)
(* thread that has joined it creates the console. The entry stays.          *)
StartupEnds ==
  /\ Running
  /\ StartingUp
  /\ lthreads' = (lthreads \ {Entry("startup_config", 0)}) \cup {Entry("console_shell", 0)}
  /\ threads' = Register(threads, Entry("console_shell", 0))
  /\ UNCHANGED <<client_fd, session, fds, force_quit, blocked, count>>

FreeSlots == {i \in Slots : client_fd[i] = -1}

(* vty_server(): a client that has connected is accepted, and gets a slot   *)
(* with a new session or is refused; accept() fails without a descriptor.   *)
Accept ==
  /\ Loops
  /\ Entry("vty_server", 0) \in lthreads
  /\ IF FreeSlots = {} \/ FreeFds(fds) = {}
     THEN UNCHANGED <<client_fd, session, fds, count>>
     ELSE LET i == Min(FreeSlots)
          IN  /\ count.served < MaxSessions
              /\ client_fd' = [client_fd EXCEPT ![i] = Lowest(fds)]
              /\ fds' = Open(fds, "client", i)
              /\ session' = [Crowd(session, 1) EXCEPT ![i] = [NoSession EXCEPT !.state = "created"]]
              /\ count' = [count EXCEPT !.served = @ + 1]
  /\ UNCHANGED <<threads, lthreads, force_quit, blocked>>

(* The ghost of more than two descriptors opened while a session pages. *)
Crowded == \E i \in Slots : session[i].is_paging /\ session[i].opened > 2

Watch == count' = [count EXCEPT !.crowded = @ \/ Crowded]

(* vty_shell() up to its loop; the banner's socket is never closed. *)
VtyStart(i) ==
  /\ Running
  /\ session[i].state = "created"
  /\ threads' = Register(threads, Entry("vty_shell", i))
  /\ fds' = Open(fds, "kept", 0)
  /\ session' = [Crowd(session, 1) EXCEPT ![i].state = "running",
                                           ![i].thread_id = RegisteredId(threads)]
  /\ UNCHANGED <<lthreads, client_fd, force_quit, blocked, count>>

Live(i) == Running /\ session[i].state = "running"

(* The end of vty_shell(). A pager that still runs is left behind. *)
EndSession(i, f) ==
  /\ fds' = Close(f, client_fd[i])
  /\ client_fd' = [client_fd EXCEPT ![i] = -1]
  /\ threads' = Unregister(threads, session[i].thread_id)
  /\ session' = [session EXCEPT ![i] = NoSession]

Wild(i) == count.wild \/ session[i].thread_id = 0

(* The client hangs up while its session pages. *)
HangUp(i) ==
  /\ session[i].is_paging /\ ~session[i].eof
  /\ session' = [session EXCEPT ![i].eof = TRUE]
  /\ UNCHANGED <<threads, lthreads, client_fd, fds, force_quit, blocked, count>>

(* The client has hung up, shell_read() returns 0: shell_read_close(), and  *)
(* the session ends, which closes the same number again before any other    *)
(* lthread has its turn.                                                    *)
ReadEof(i) ==
  /\ Live(i) /\ ~force_quit
  /\ ~session[i].is_paging
  /\ EndSession(i, Close(fds, client_fd[i]))
  /\ count' = [count EXCEPT !.wild = Wild(i)]
  /\ UNCHANGED <<lthreads, force_quit, blocked>>

(* A command behind the pager, with the first turn of the pager: the        *)
(* writing end is closed, and the pager may be gone already.                *)
PagedCommand(i) ==
  LET p == PagerFds(fds)
  IN  /\ Live(i) /\ ~force_quit
      /\ ~session[i].eof /\ ~session[i].is_paging
      /\ count.paged < MaxPaged
      /\ fds' = Close(ParentCloses(p), p.writer)
      /\ \E gone \in BOOLEAN :
           session' = [Crowd(session, 1) EXCEPT
                         ![i].is_paging = ~gone, ![i].opened = 0,
                         ![i].pager = IF gone THEN "none" ELSE "shows",
                         ![i].pipefd = IF gone THEN -1 ELSE p.writer]
      /\ count' = [count EXCEPT !.paged = @ + 1]
      /\ UNCHANGED <<threads, lthreads, client_fd, force_quit, blocked>>

(* pipe() fails: the pty pair stays open. fork() fails: all four are closed.*)
PagerFails(i) ==
  LET p == PagerFds(fds)
  IN  /\ Live(i) /\ ~force_quit
      /\ ~session[i].eof /\ ~session[i].is_paging
      /\ count.paged < MaxPaged
      /\ \/ /\ fds' = p.pty
            /\ session' = Crowd(session, 2)
            /\ count' = [count EXCEPT !.paged = @ + 1, !.slaves = @ + 1]
         \/ /\ fds' = Close(Close(ParentCloses(p), p.writer), p.master)
            /\ UNCHANGED <<session, count>>
      /\ UNCHANGED <<threads, lthreads, client_fd, force_quit, blocked>>

(* The operator ends the pager. *)
PagerQuits(i) ==
  /\ session[i].pager = "shows"
  /\ session' = [session EXCEPT ![i].pager = "gone"]
  /\ UNCHANGED <<threads, lthreads, client_fd, fds, force_quit, blocked, count>>

(* Mutant: the slave's number, two below, is closed at every turn too. *)
XStaleClose(i) == Close(Close(fds, session[i].pipefd), session[i].pipefd - 2)

(* pipefd[1] is closed once more, whatever has the number now. *)
StaleClose(i) == Close(fds, session[i].pipefd)

(* Mutant: the hang-up of the pty is not looked at. *)
XBridgeEnds(i) == session[i].eof

(* A pager that is gone hangs up the pty; the client may have hung up too. *)
BridgeEnds(i) == session[i].pager = "gone" \/ session[i].eof

(* shell_read_nowait_paging(): bytes are passed on between the client and   *)
(* the pty until one of them hangs up: then waitpid().                      *)
PagingTurn(i) ==
  /\ Live(i) /\ ~force_quit
  /\ session[i].is_paging
  /\ fds' = StaleClose(i)
  /\ \/ /\ ~BridgeEnds(i)
        /\ UNCHANGED <<session, blocked>>
     \/ /\ BridgeEnds(i) /\ session[i].pager = "gone"
        /\ session' = [session EXCEPT ![i].is_paging = FALSE, ![i].pager = "none",
                                      ![i].pipefd = -1]
        /\ UNCHANGED blocked
     \/ /\ BridgeEnds(i) /\ session[i].pager # "gone"
        /\ blocked' = {i}
        /\ UNCHANGED session
  /\ Watch
  /\ UNCHANGED <<threads, lthreads, client_fd, force_quit>>

(* waitpid() returns. *)
WaitpidReturns ==
  /\ \E i \in blocked :
       /\ session[i].pager = "gone"
       /\ session' = [session EXCEPT ![i].is_paging = FALSE, ![i].pager = "none",
                                     ![i].pipefd = -1]
  /\ blocked' = {}
  /\ UNCHANGED <<threads, lthreads, client_fd, fds, force_quit, count>>

(* exit, quit, logout in a session (the pager is off or gone). *)
VtyExit(i) ==
  /\ Live(i) /\ ~session[i].eof /\ ~session[i].is_paging
  /\ EndSession(i, fds)
  /\ count' = [count EXCEPT !.wild = Wild(i)]
  /\ UNCHANGED <<lthreads, force_quit, blocked>>

(* A shell reads a command: a session, the console, or the startup shell,   *)
(* which does not look at force_quit. (The others have slept since they     *)
(* looked at it.)                                                           *)
AtPrompt ==
  /\ Running
  /\ \/ StartingUp
     \/ Entry("console_shell", 0) \in lthreads
     \/ \E i \in Slots : session[i].state = "running" /\ ~session[i].is_paging

(* What is started is registered, and nobody removes the entry. *)
Starts(kind) ==
  /\ AtPrompt
  /\ count.starts < MaxStarts
  /\ threads' = Register(threads, Entry(kind, 0))
  /\ count' = [count EXCEPT !.starts = @ + 1]
  /\ UNCHANGED <<client_fd, session, fds, blocked>>

(* start_lcore(); start worker lcore all takes force_quit back.             *)
StartWorker ==
  /\ Starts("worker")
  /\ force_quit' \in {force_quit, FALSE}
  /\ UNCHANGED lthreads

(* set worker lthread rib-manager, stat-collector: as often as it is given. *)
StartLthread ==
  \E kind \in {"rib_manager", "stat_collector"} :
    /\ Starts(kind)
    /\ lthreads' = lthreads \cup {Entry(kind, count.starts)}
    /\ UNCHANGED force_quit

(* SIGTERM, stop worker lcore all, or shutdown in a session. (A stop of the *)
(* lthread core raises force_stop[lthread_core], which ends the same loops.)*)
Quit ==
  /\ ~force_quit
  /\ force_quit' = TRUE
  /\ UNCHANGED <<threads, lthreads, client_fd, session, fds, blocked, count>>

(* The loops end: sessions close and unregister, the others just return.    *)
SessionEnds(i) ==
  /\ Live(i) /\ force_quit
  /\ EndSession(i, fds)
  /\ count' = [count EXCEPT !.wild = Wild(i)]
  /\ UNCHANGED <<lthreads, force_quit, blocked>>

LoopEnds ==
  /\ Running /\ force_quit
  /\ \E t \in lthreads \ {Entry("startup_config", 0)} : lthreads' = lthreads \ {t}
  /\ UNCHANGED <<threads, client_fd, session, fds, force_quit, blocked, count>>

(* What a session does by itself. *)
SessionTurn(i) ==
  \/ VtyStart(i)
  \/ PagingTurn(i)
  \/ SessionEnds(i)

Next ==
  \/ StartupEnds
  \/ Accept
  \/ \E i \in Slots : SessionTurn(i)
  \/ \E i \in Slots : HangUp(i)
  \/ \E i \in Slots : ReadEof(i)
  \/ \E i \in Slots : PagedCommand(i)
  \/ \E i \in Slots : PagerFails(i)
  \/ \E i \in Slots : PagerQuits(i)
  \/ WaitpidReturns
  \/ \E i \in Slots : VtyExit(i)
  \/ StartWorker
  \/ StartLthread
  \/ Quit
  \/ LoopEnds

(* Every lthread that is ready gets its turn (lthread_run() is a round      *)
(* robin), the configuration file ends, and the operator of a pager leaves  *)
(* it as long as the connection is there.                                   *)
Fairness ==
  /\ WF_vars(StartupEnds)
  /\ WF_vars(LoopEnds)
  /\ WF_vars(WaitpidReturns)
  /\ \A i \in Slots : WF_vars(SessionTurn(i))
  /\ \A i \in Slots : WF_vars(ReadEof(i) /\ session[i].eof)
  /\ \A i \in Slots : WF_vars(PagerQuits(i) /\ ~session[i].eof)

Spec == Init /\ [][Next]_vars /\ Fairness

-----------------------------------------------------------------------------
(* A session's entry of the thread table is its own until it removes it,    *)
(* whoever comes and goes meanwhile, and entries of sessions that have      *)
(* ended are gone.                                                          *)
EntryOwned ==
  /\ \A i \in Slots :
       session[i].thread_id # 0 =>
         /\ session[i].thread_id \in DOMAIN threads
         /\ threads[session[i].thread_id] = Entry("vty_shell", i)
  /\ \A e \in DOMAIN threads :
       threads[e].kind = "vty_shell" =>
         threads[e].of \in Slots /\ session[threads[e].of].thread_id = e

(* thread_unregister() writes outside the table, with the id of a failed    *)
(* registration, only if lthread_main, the server, the two shells of the    *)
(* control core, whatever workers and lthreads were ever started and the    *)
(* client slots together are more than the table holds: sessions give their *)
(* entries back, so that their number alone never fills it.                 *)
TableSuffices ==
  count.wild => 4 + count.starts + VTY_CLIENT_MAX > THREAD_INFO_LIMIT

(* No other session closes a session's connection, although a session that  *)
(* pages closes the number of its pipe at every turn: the number is free    *)
(* until a third descriptor is opened while it pages.                       *)
SessionKeepsFd ==
  count.crowded \/ Crowded \/
    \A i \in Slots : client_fd[i] # -1 => fds[client_fd[i]] = Entry("client", i)

(* What stays open: besides the connections of the sessions, one pty master *)
(* for each paged command, one socket for each session served, and a slave  *)
(* for each pipe() that failed. They are never closed, so the descriptors   *)
(* of the process bound the commands it can ever page.                      *)
FdsAccounted ==
  LET Of(kind) == {n \in Fds : fds[n].kind = kind}
  IN  count.crowded \/ Crowded \/
        /\ Cardinality(Of("kept")) = count.paged + count.slaves
                                         + count.served - Cardinality({i \in Slots : session[i].state = "created"})
        /\ Of("pipe") = {}

(* If no client hangs up while its pager shows a page, a paging session     *)
(* gets its prompt back, and after SIGTERM or shutdown every lthread ends,  *)
(* rib managers and statistics collectors too, unless start worker lcore    *)
(* all takes force_quit back.                                               *)
ControlProgress ==
  [](\A i \in Slots : session[i].eof => session[i].pager # "shows") =>
    /\ \A i \in Slots : session[i].is_paging ~> ~session[i].is_paging
    /\ <>[]force_quit => <>(lthreads = {} /\ \A i \in Slots : session[i].state = "none")

=============================================================================
