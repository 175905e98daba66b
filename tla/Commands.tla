------------------------------ MODULE Commands ------------------------------
(***************************************************************************)
(* The commands clients send: AsyncServer::Process sorts them into two     *)
(* queues on the io thread; AsyncServer::Update on the main thread and     *)
(* Process_Async on a thread of its own take them out in batches and       *)
(* execute them with DoProcess. The table of commands is filled while the  *)
(* io thread is accepting connections already.                             *)
(*                                                                         *)
(* A command is named by its session, its code and how many the session    *)
(* had sent. What the handlers do is in Lobby, Match and Registry.         *)
(***************************************************************************)
EXTENDS Naturals, Sequences, FiniteSets, SequencesExt

CONSTANTS
  Sessions,    \* SocketUsers
  MainCodes,   \* codes added with a callback for the main thread
  AsyncCodes,  \* codes added with async = true
  OtherCodes,  \* codes nobody adds
  MaxSent      \* bound: commands of each session

ASSUME CommandsAssumption ==
  /\ IsFiniteSet(Sessions)
  /\ MainCodes \cap AsyncCodes = {}
  /\ OtherCodes \cap (MainCodes \cup AsyncCodes) = {}
  /\ MaxSent \in Nat

VARIABLES
  process,     \* runs; the main thread is stuck in the removal of a session;
               \* terminated; or a null Callback was called
  main,        \* where the main thread is
  async,       \* where Process_Async is
  table,       \* m_commands: the thread for each code's callback; null for an
               \* entry that operator[] has made
  added,       \* codes AddCommand was called for
  runAsync,    \* m_run_async_commands, not initialised before Process_Async
  open,        \* sessions whose handshake is done
  addQueue,    \* m_queue_user_add
  registered,  \* m_socket_users
  sent,        \* commands each session has sent
  queue,       \* m_main_command_queue and m_async_command_queue
  batch,       \* current_command_queue of either thread
  calling,     \* the commands whose session Process_Async has looked up
  executed,    \* history: the commands executed by either thread
  known        \* history: the commands that were sent by a registered session

sessionVars == <<open, addQueue, registered>>
tableVars   == <<table, added, runAsync>>
historyVars == <<executed, known>>
vars == <<process, main, async, tableVars, sessionVars, sent, queue, batch, calling,
          historyVars>>

Threads == {"main", "async"}
Codes == MainCodes \cup AsyncCodes \cup OtherCodes
Command == [session : Sessions, code : Codes, number : 1..MaxSent]

TypeOK ==
  /\ process \in {"runs", "stuck", "terminated", "null callback"}
  /\ main \in {"init", "adds", "removes", "drain", "execute"}
  /\ async \in {"start", "drain", "execute", "call"}
  /\ table \in [Codes -> {"none", "null", "main", "async"}]
  /\ added \subseteq MainCodes \cup AsyncCodes
  /\ runAsync \in BOOLEAN
  /\ open \subseteq Sessions /\ registered \subseteq open
  /\ addQueue \in Seq(Sessions)
  /\ sent \in [Sessions -> 0..MaxSent]
  /\ queue \in [Threads -> Seq(Command)]
  /\ batch \in [Threads -> Seq(Command)]
  /\ calling \in Seq(Command) /\ (calling # <<>> <=> async = "call")
  /\ executed \in [Threads -> Seq(Command)]
  /\ known \subseteq Command

Init ==
  /\ process = "runs"
  /\ main = "init" /\ async = "start"
  /\ table = [c \in Codes |-> "none"]
  /\ added = {}
  /\ runAsync \in BOOLEAN
  /\ open = {} /\ addQueue = <<>> /\ registered = {}
  /\ sent = [s \in Sessions |-> 0]
  /\ queue = [t \in Threads |-> <<>>]
  /\ batch = [t \in Threads |-> <<>>]
  /\ calling = <<>>
  /\ executed = [t \in Threads |-> <<>>]
  /\ known = {}

MainRuns == process = "runs"
OthersRun == process \in {"runs", "stuck"}

-----------------------------------------------------------------------------
(* The io thread.                                                          *)

\* The handshake: AddPlayer, and reading starts.
Connect(s) ==
  /\ OthersRun
  /\ s \notin open
  /\ open' = open \cup {s}
  /\ addQueue' = Append(addQueue, s)
  /\ UNCHANGED <<process, main, async, tableVars, registered, sent, queue, batch,
                 calling, historyVars>>

\* Mutant of Destination: either condition is enough.
DestinationEither(c) == IF table[c] = "async" \/ runAsync THEN "async" ELSE "main"

\* The queue for a code: that of the async thread if it runs.
Destination(c) == IF table[c] = "async" /\ runAsync THEN "async" ELSE "main"

\* Mutant of Process: the command is pushed at the front.
ProcessFront(s, c) ==
  LET command == [session |-> s, code |-> c, number |-> sent[s] + 1]
  IN  /\ OthersRun
      /\ s \in open
      /\ sent[s] < MaxSent
      /\ sent' = [sent EXCEPT ![s] = @ + 1]
      /\ table' = [table EXCEPT ![c] = IF @ = "none" THEN "null" ELSE @]
      /\ queue' = [queue EXCEPT ![Destination(c)] = <<command>> \o @]
      /\ known' = IF s \in registered THEN known \cup {command} ELSE known
      /\ UNCHANGED <<process, main, async, added, runAsync, sessionVars, batch, calling,
                     executed>>

\* Process: m_commands[command] adds an entry for a code it does not have.
Process(s, c) ==
  LET command == [session |-> s, code |-> c, number |-> sent[s] + 1]
  IN  /\ OthersRun
      /\ s \in open
      /\ sent[s] < MaxSent
      /\ sent' = [sent EXCEPT ![s] = @ + 1]
      /\ table' = [table EXCEPT ![c] = IF @ = "none" THEN "null" ELSE @]
      /\ queue' = [queue EXCEPT ![Destination(c)] = Append(@, command)]
      /\ known' = IF s \in registered THEN known \cup {command} ELSE known
      /\ UNCHANGED <<process, main, async, added, runAsync, sessionVars, batch, calling,
                     executed>>

-----------------------------------------------------------------------------
(* The main thread: Server_Main::Init, then AsyncServer::Update for ever.  *)

\* AddCommand: an entry that is there is left as it is.
AddCommand(c) ==
  /\ MainRuns
  /\ main = "init"
  /\ c \in (MainCodes \cup AsyncCodes) \ added
  /\ added' = added \cup {c}
  /\ table' = IF table[c] = "none"
              THEN [table EXCEPT ![c] = IF c \in AsyncCodes THEN "async" ELSE "main"]
              ELSE table
  /\ UNCHANGED <<process, main, async, runAsync, sessionVars, sent, queue, batch,
                 calling, historyVars>>

Initialised ==
  /\ MainRuns
  /\ main = "init"
  /\ added = MainCodes \cup AsyncCodes
  /\ main' = "adds"
  /\ UNCHANGED <<process, async, tableVars, sessionVars, sent, queue, batch, calling,
                 historyVars>>

\* The add queue is emptied.
AddSessions ==
  /\ MainRuns
  /\ main = "adds"
  /\ registered' = registered \cup ToSet(addQueue)
  /\ addQueue' = <<>>
  /\ main' = "removes"
  /\ UNCHANGED <<process, async, tableVars, open, sent, queue, batch, calling,
                 historyVars>>

\* DoRemovePlayer, which Registry has in full: it gets stuck, it ends with the
\* process, or the session lives on somewhere and the server goes on.
RemoveSession(s) ==
  /\ MainRuns
  /\ main = "removes"
  /\ s \in registered
  /\ \/ process' = "stuck" /\ UNCHANGED registered
     \/ process' = "terminated" /\ registered' = registered \ {s}
     \/ UNCHANGED process /\ registered' = registered \ {s}
  /\ UNCHANGED <<main, async, tableVars, open, addQueue, sent, queue, batch, calling,
                 historyVars>>

RemovesDone ==
  /\ MainRuns
  /\ main = "removes"
  /\ main' = "drain"
  /\ UNCHANGED <<process, async, tableVars, sessionVars, sent, queue, batch, calling,
                 historyVars>>

\* Mutant of Take: the batch is replaced, and what the queue had after the first
\* command is lost.
TakeFirst(t) ==
  /\ batch' = [batch EXCEPT ![t] = IF queue[t] = <<>> THEN <<>> ELSE <<Head(queue[t])>>]
  /\ queue' = [queue EXCEPT ![t] = <<>>]

\* threadSafeCommandQueueDuplicate.
Take(t) ==
  /\ batch' = [batch EXCEPT ![t] = queue[t]]
  /\ queue' = [queue EXCEPT ![t] = <<>>]

MainTake ==
  /\ MainRuns
  /\ main = "drain"
  /\ Take("main")
  /\ main' = "execute"
  /\ UNCHANGED <<process, async, tableVars, sessionVars, sent, calling, historyVars>>

\* DoProcess. The code is always in the table. Nothing is done for a session that
\* is not registered, yet or any more.
MainExecute ==
  /\ MainRuns
  /\ main = "execute"
  /\ batch["main"] # <<>>
  /\ LET command == Head(batch["main"])
     IN  IF command.session \notin registered
         THEN UNCHANGED <<process, executed>>
         ELSE IF table[command.code] = "null"
         THEN process' = "null callback" /\ UNCHANGED executed
         ELSE /\ executed' = [executed EXCEPT !["main"] = Append(@, command)]
              /\ UNCHANGED process
  /\ batch' = [batch EXCEPT !["main"] = Tail(@)]
  /\ UNCHANGED <<main, async, tableVars, sessionVars, sent, queue, calling, known>>

MainDone ==
  /\ MainRuns
  /\ main = "execute"
  /\ batch["main"] = <<>>
  /\ main' = "adds"
  /\ UNCHANGED <<process, async, tableVars, sessionVars, sent, queue, batch, calling,
                 historyVars>>

-----------------------------------------------------------------------------
(* Process_Async.                                                          *)

AsyncStart ==
  /\ OthersRun
  /\ async = "start"
  /\ runAsync' = TRUE
  /\ async' = "drain"
  /\ UNCHANGED <<process, main, table, added, sessionVars, sent, queue, batch, calling,
                 historyVars>>

AsyncTake ==
  /\ OthersRun
  /\ async = "drain"
  /\ Take("async")
  /\ async' = "execute"
  /\ UNCHANGED <<process, main, tableVars, sessionVars, sent, calling, historyVars>>

\* DoProcess, under m_user_mtx: the session is looked up.
AsyncLookup ==
  /\ OthersRun
  /\ async = "execute"
  /\ batch["async"] # <<>>
  /\ IF Head(batch["async"]).session \in registered
     THEN calling' = <<Head(batch["async"])>> /\ async' = "call"
     ELSE UNCHANGED <<calling, async>>
  /\ batch' = [batch EXCEPT !["async"] = Tail(@)]
  /\ UNCHANGED <<process, main, tableVars, sessionVars, sent, queue, historyVars>>

\* Mutant of AsyncCall: the thread ends with the command.
AsyncCallLast ==
  /\ OthersRun
  /\ async = "call"
  /\ executed' = [executed EXCEPT !["async"] = @ \o calling]
  /\ calling' = <<>>
  /\ async' = "start"
  /\ UNCHANGED <<process, main, tableVars, sessionVars, sent, queue, batch, known>>

\* DoProcess: the callback.
AsyncCall ==
  /\ OthersRun
  /\ async = "call"
  /\ executed' = [executed EXCEPT !["async"] = @ \o calling]
  /\ calling' = <<>>
  /\ async' = "execute"
  /\ UNCHANGED <<process, main, tableVars, sessionVars, sent, queue, batch, known>>

AsyncDone ==
  /\ OthersRun
  /\ async = "execute"
  /\ batch["async"] = <<>>
  /\ async' = "drain"
  /\ UNCHANGED <<process, main, tableVars, sessionVars, sent, queue, batch, calling,
                 historyVars>>

-----------------------------------------------------------------------------
Main ==
  \/ \E c \in Codes : AddCommand(c)
  \/ Initialised \/ AddSessions \/ RemovesDone
  \/ MainTake \/ MainExecute \/ MainDone

Async == AsyncStart \/ AsyncTake \/ AsyncLookup \/ AsyncCall \/ AsyncDone

Next ==
  \/ \E s \in Sessions : Connect(s) \/ RemoveSession(s)
  \/ \E s \in Sessions, c \in Codes : Process(s, c)
  \/ Main
  \/ Async

\* Both threads go on; clients need not, and no session has to be removed.
Fairness == WF_vars(Main) /\ WF_vars(Async)

Spec == Init /\ [][Next]_vars

FairSpec == Spec /\ Fairness

-----------------------------------------------------------------------------
(* Safety.                                                                 *)

\* Either thread executes a session's commands in the order they were sent in,
\* through the queue, the batch and the looked-up command.
InOrder ==
  \A t \in Threads : \A i, j \in DOMAIN executed[t] :
    i < j /\ executed[t][i].session = executed[t][j].session =>
      executed[t][i].number < executed[t][j].number

\* Handlers that use m_players and the matches without a lock run on the main
\* thread only, whatever m_run_async_commands was before it was set.
ThreadConfined ==
  \A i \in DOMAIN executed["async"] : executed["async"][i].code \in AsyncCodes

\* All the places a command can be in.
Places ==
  queue["main"] \o batch["main"] \o executed["main"] \o
  queue["async"] \o batch["async"] \o calling \o executed["async"]

\* A command that a session sends while it is registered is in one place, once:
\* neither lost on the way nor executed twice. (What a session sends before the
\* main thread has added it may be dropped: the first identity, for one.)
KnownCommandKept ==
  process = "runs" =>
    \A k \in known :
      k.session \in registered =>
        Cardinality({i \in DOMAIN Places : Places[i] = k}) = 1

\* DoProcess rejects a code that is not in the table: "Invalid command submitted".
InvalidCommandRejected == process # "null callback"

-----------------------------------------------------------------------------
(* Liveness, under FairSpec.                                               *)

\* It is executed, unless the session goes or the main thread ends.
KnownCommandExecuted ==
  \A k \in Command :
    k \in known ~>
      (k \in ToSet(executed["main"] \o executed["async"])
         \/ k.session \notin registered \/ process # "runs")
=============================================================================
