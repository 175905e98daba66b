------------------------------ MODULE Console ------------------------------
(***************************************************************************)
(* The console: log entries that any thread adds under Logger's mutex and  *)
(* the main thread draws, and the operator's line, of which the main       *)
(* thread reads one key in every round of Server_Main::Loop.               *)
(*                                                                         *)
(* Entries are numbered in the order they were added. Their text, the      *)
(* colours and the layout of the terminal are left out.                    *)
(***************************************************************************)
EXTENDS Naturals, Sequences, FiniteSets, SequencesExt

CONSTANTS
  InputMax,    \* INPUT_MAX
  MaxEntries,  \* bound: entries added in a behaviour
  MaxKeys      \* bound: keys typed in a behaviour

ASSUME ConsoleAssumption ==
  /\ InputMax \in Nat \ {0}
  /\ MaxEntries \in Nat \ {0}
  /\ MaxKeys \in Nat

VARIABLES
  main,       \* where the main thread is in Server_Main::Update
  added,      \* history: how many entries were added
  entries,    \* Logger::_entries
  current,    \* Logger::_currentEntries
  next,       \* the entry of current the main thread draws next
  drawn,      \* history: the entries drawn
  input,      \* CommandExecuter's _inputStr up to _inputStr_size
  curCommand, \* m_curCommand
  command,    \* m_executedCommand
  read,       \* history: the keys read
  executed    \* history: the commands Update has found

logVars == <<added, entries, current, next, drawn>>
inputVars == <<input, curCommand, read>>
vars == <<main, logVars, inputVars, command, executed>>

Enter == "enter"
Letters == {"x", "y"}
Keys == Letters \cup {Enter}
Entries == 1..MaxEntries

TypeOK ==
  /\ main \in {"process", "update", "test", "take", "draw", "overrun"}
  /\ added \in 0..MaxEntries
  /\ entries \in Seq(Entries) /\ current \in Seq(Entries) /\ drawn \in Seq(Entries)
  /\ next \in 1..(Len(current) + 1)
  /\ input \in BoundedSeq(Letters, InputMax)
  /\ {curCommand, command} \subseteq BoundedSeq(Letters, InputMax)
  /\ read \in BoundedSeq(Keys, MaxKeys)
  /\ executed \in Seq(BoundedSeq(Letters, InputMax))

\* Server_Main::Init has logged its last message. CommandExecuter::Run(false).
Init ==
  /\ main = "process"
  /\ added = 1 /\ entries = <<1>> /\ current = <<>> /\ next = 1 /\ drawn = <<>>
  /\ input = <<>> /\ curCommand = <<>> /\ read = <<>>
  /\ command = <<>> /\ executed = <<>>

-----------------------------------------------------------------------------
(* Logger.                                                                 *)

\* push_back under mtx.
Push ==
  /\ added < MaxEntries
  /\ added' = added + 1
  /\ entries' = Append(entries, added')
  /\ UNCHANGED <<current, next, drawn>>

\* Print, Log, LogWarning and LogError of another thread.
AddEntry ==
  /\ Push
  /\ UNCHANGED <<main, inputVars, command, executed>>

\* The same from what the main thread does in an Update: the sessions, the
\* matches, and once a second the lengths of the queues.
MainLogs ==
  /\ main = "update"
  /\ Push
  /\ UNCHANGED <<main, inputVars, command, executed>>

\* Logger::Update: _entries.size(), without the mutex.
TestEntries ==
  /\ main = "test"
  /\ main' = IF entries # <<>> THEN "take" ELSE "process"
  /\ UNCHANGED <<logVars, inputVars, command, executed>>

\* Mutant of TakeEntries: the entries of the round before are not cleared.
TakeEntriesOnTop ==
  /\ main = "take"
  /\ current' = current \o entries
  /\ entries' = <<>>
  /\ next' = 1
  /\ main' = "draw"
  /\ UNCHANGED <<added, drawn, inputVars, command, executed>>

\* Logger::Update under mtx.
TakeEntries ==
  /\ main = "take"
  /\ current' = entries
  /\ entries' = <<>>
  /\ next' = 1
  /\ main' = "draw"
  /\ UNCHANGED <<added, drawn, inputVars, command, executed>>

\* The loop over _currentEntries, and the end of the round.
DrawEntry ==
  /\ main = "draw"
  /\ IF next <= Len(current)
     THEN /\ drawn' = Append(drawn, current[next])
          /\ next' = next + 1
          /\ UNCHANGED main
     ELSE /\ main' = "process"
          /\ UNCHANGED <<drawn, next>>
  /\ UNCHANGED <<added, entries, current, inputVars, command, executed>>

-----------------------------------------------------------------------------
(* CommandExecuter::Process and Server_Main::Update.                       *)

\* kbhit() finds nothing.
ProcessNothing ==
  /\ main = "process"
  /\ main' = "update"
  /\ UNCHANGED <<logVars, inputVars, command, executed>>

\* A key other than enter. _inputStr has no room for more than INPUT_MAX: what
\* the write behind it hits is not modelled, and nothing happens after it.
ProcessLetter(k) ==
  /\ main = "process"
  /\ Len(read) < MaxKeys
  /\ IF Len(input) < InputMax
     THEN /\ input' = Append(input, k)
          /\ curCommand' = input'
          /\ read' = Append(read, k)
          /\ main' = "update"
     ELSE /\ main' = "overrun"
          /\ UNCHANGED inputVars
  /\ UNCHANGED <<logVars, command, executed>>

\* Mutant of ProcessEnter: the line is cleared before it is handed over.
ProcessEnterCleared ==
  /\ main = "process"
  /\ Len(read) < MaxKeys
  /\ Push
  /\ command' = <<>>
  /\ input' = <<>> /\ curCommand' = <<>>
  /\ read' = Append(read, Enter)
  /\ main' = "update"
  /\ UNCHANGED executed

\* Enter: Logger::ResetInput adds an entry, the line becomes the command.
ProcessEnter ==
  /\ main = "process"
  /\ Len(read) < MaxKeys
  /\ Push
  /\ command' = input
  /\ input' = <<>> /\ curCommand' = <<>>
  /\ read' = Append(read, Enter)
  /\ main' = "update"
  /\ UNCHANGED executed

\* if (m_executedCommand != ""): there are no commands yet.
ExecuteCommand ==
  /\ main = "update"
  /\ executed' = IF command # <<>> THEN Append(executed, command) ELSE executed
  /\ command' = <<>>
  /\ main' = "test"
  /\ UNCHANGED <<logVars, inputVars>>

-----------------------------------------------------------------------------
Next ==
  \/ AddEntry \/ MainLogs
  \/ TestEntries \/ TakeEntries \/ DrawEntry
  \/ ProcessNothing
  \/ \E k \in Letters : ProcessLetter(k)
  \/ ProcessEnter
  \/ ExecuteCommand

Spec == Init /\ [][Next]_vars

-----------------------------------------------------------------------------
(* Properties.                                                             *)

\* Every entry is drawn once and in the order of the calls, whatever the threads
\* add between the test of the list, which is made without the mutex, the taking
\* and the drawing.
LogInOrder ==
  LET left == IF main = "draw" THEN SubSeq(current, next, Len(current)) ELSE <<>>
  IN  drawn \o left \o entries = [i \in 1..added |-> i]

\* Found by Update, or waiting for it.
Found == executed \o (IF command = <<>> THEN <<>> ELSE <<command>>)

\* The enters that end a line that is not empty.
LineEnds == {b \in DOMAIN read : read[b] = Enter /\ b > 1 /\ read[b - 1] # Enter}

\* The keys from a to b are of one line, which begins with a.
OneLine(a, b) ==
  /\ a = 1 \/ read[a - 1] = Enter
  /\ \A i \in a..b : read[i] # Enter

\* Update finds every line the operator has ended, whole, once and in order, up
\* to the longest that INPUT_MAX allows; an empty line is no command. What is
\* shown as the current command is the rest.
LinesAreExecuted ==
  /\ Len(Found) = Cardinality(LineEnds)
  /\ \A b \in LineEnds : \E a \in 1..b :
       /\ OneLine(a, b - 1)
       /\ Found[Cardinality({c \in LineEnds : c <= b})] = SubSeq(read, a, b - 1)
  /\ \E a \in 1..(Len(read) + 1) :
       OneLine(a, Len(read)) /\ curCommand = SubSeq(read, a, Len(read))
=============================================================================
