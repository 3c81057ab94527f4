----------------------------- MODULE AsyncLogger -----------------------------
(***************************************************************************)
(* The asynchronous logger that Logger::initialize installs: the thread of *)
(* main() posts messages to a bounded queue, which drops its oldest item   *)
(* when it is full, and one worker thread hands them to the sinks.         *)
(* Logger::shutdown posts a flush, and the end of the thread pool a        *)
(* request to terminate, which waits for room, and joins the worker.  A    *)
(* sink may fail on a message: the JSON formatter throws for text that is  *)
(* not UTF-8, and a file may be full or fail to rotate.                    *)
(*                                                                         *)
(* The two threads are the only ones of the program.  Messages are         *)
(* numbered in the order they are logged.                                  *)
(***************************************************************************)
EXTENDS Naturals, Sequences, FiniteSets

CONSTANTS
  Capacity,    \* the size of the queue, 8192
  Sinks,       \* the sinks there may be: the file, the console
  MaxMessages, \* bound: messages logged
  MaxFailures  \* bound: messages sinks fail on

ASSUME LoggerAssumption ==
  /\ Capacity \in Nat \ {0}
  /\ Sinks # {}
  /\ MaxMessages \in Nat
  /\ MaxFailures \in Nat

VARIABLES
  stage,    \* of main(): "logging", "flushing", "joining" or "down"
  logged,   \* how many messages were logged
  queue,    \* the queue of the thread pool
  worker,   \* of the thread pool: "waiting", "busy" or "done"
  hand,     \* the item the worker took, while it is busy
  written,  \* the messages the sinks were given, in order
  output,   \* what each sink that is enabled has put out, in order
  flushed,  \* how many of written the last flush of the sinks covers
  lost,     \* history: the messages dropped from the queue
  failed    \* history: which sink failed on which message

given == <<written, output, failed>>
vars == <<stage, logged, queue, worker, hand, given, flushed, lost>>

\* urgent is level err and above: flush_on.
Messages == [type : {"log"}, n : Nat \ {0}, urgent : BOOLEAN]
Flush == [type |-> "flush"]
Terminate == [type |-> "terminate"]
Items == Messages \cup {Flush, Terminate}

Init ==
  /\ stage = "logging"
  /\ logged = 0
  /\ queue = <<>>
  /\ worker = "waiting"
  /\ hand = Flush
  /\ written = <<>>
  /\ \E enabled \in SUBSET Sinks \ {{}} : output = [s \in enabled |-> <<>>]
  /\ flushed = 0
  /\ lost = {} /\ failed = {}

-----------------------------------------------------------------------------
(* The thread of main().                                                   *)

\* A queue without bounds.
Unbounded == TRUE

Room == Len(queue) < Capacity

\* Items that overtake the others.
InFront(item, items) == <<item>> \o items

Behind(item, items) == Append(items, item)

\* discard_new: a full queue leaves the item out.
Discard(item) ==
  /\ UNCHANGED queue
  /\ lost' = lost \cup (IF item.type = "log" THEN {item.n} ELSE {})

\* overrun_oldest: a full queue loses the item at its head.
Overrun(item) ==
  /\ queue' = Behind(item, Tail(queue))
  /\ lost' = lost \cup (IF Head(queue).type = "log" THEN {Head(queue).n} ELSE {})

Post(item) ==
  \/ Room /\ queue' = Behind(item, queue) /\ UNCHANGED lost
  \/ ~Room /\ Overrun(item)

\* spdlog::info and its like, with the asynchronous logger as default.
Log(urgent) ==
  /\ stage = "logging"
  /\ logged < MaxMessages
  /\ logged' = logged + 1
  /\ Post([type |-> "log", n |-> logged + 1, urgent |-> urgent])
  /\ UNCHANGED <<stage, worker, hand, given, flushed>>

\* A shutdown that leaves the flush to the end of the thread pool.
NoFlush == UNCHANGED <<queue, lost>>

\* logger_->flush(), which does not wait for the flush.
PostFlush == Post(Flush)

\* Logger::shutdown, up to spdlog::shutdown.
Shutdown ==
  /\ stage = "logging"
  /\ stage' = "flushing"
  /\ PostFlush
  /\ UNCHANGED <<logged, worker, hand, given, flushed>>

\* A terminate that is posted as messages are.
TerminateOverrunning == Post(Terminate)

\* A terminate that a full queue leaves out.
TerminateDropping == IF Room THEN Post(Terminate) ELSE Discard(Terminate)

\* It waits for room in the queue.
PostTerminate == Room /\ Post(Terminate)

\* spdlog::shutdown destroys the thread pool.
EndPool ==
  /\ stage = "flushing"
  /\ stage' = "joining"
  /\ PostTerminate
  /\ UNCHANGED <<logged, worker, hand, given, flushed>>

\* A pool that lets its worker go instead of waiting for it.
Detached == TRUE

\* The worker can be joined.
Ended == worker = "done"

\* The pool waits for the worker, and the logger is gone.
Join ==
  /\ stage = "joining"
  /\ Ended
  /\ stage' = "down"
  /\ UNCHANGED <<logged, queue, worker, hand, given, flushed, lost>>

-----------------------------------------------------------------------------
(* The worker thread.                                                      *)

Take ==
  /\ worker = "waiting"
  /\ queue # <<>>
  /\ worker' = "busy"
  /\ hand' = Head(queue)
  /\ queue' = Tail(queue)
  /\ UNCHANGED <<stage, logged, given, flushed, lost>>

\* One try around the loop over the sinks: a failure is one of all of them.
TakesIfNoneFails(sink, failing) == failing = {}

\* Each sink is tried for itself.
Takes(sink, failing) == sink \notin failing

\* backend_sink_it_: all sinks, and a flush for an urgent message.
Write ==
  /\ worker = "busy" /\ hand.type = "log"
  /\ written' = Append(written, hand.n)
  /\ \E failing \in SUBSET DOMAIN output :
       /\ Cardinality(failed) + Cardinality(failing) <= MaxFailures
       /\ failed' = failed \cup {<<s, hand.n>> : s \in failing}
       /\ output' = [s \in DOMAIN output |->
                       IF Takes(s, failing) THEN Append(output[s], hand.n)
                                            ELSE output[s]]
  /\ flushed' = IF hand.urgent THEN Len(written) + 1 ELSE flushed
  /\ worker' = "waiting"
  /\ UNCHANGED <<stage, logged, queue, hand, lost>>

FlushSinks ==
  /\ worker = "busy" /\ hand.type = "flush"
  /\ flushed' = Len(written)
  /\ worker' = "waiting"
  /\ UNCHANGED <<stage, logged, queue, hand, given, lost>>

Stop ==
  /\ worker = "busy" /\ hand.type = "terminate"
  /\ worker' = "done"
  /\ UNCHANGED <<stage, logged, queue, hand, given, flushed, lost>>

Worker == Take \/ Write \/ FlushSinks \/ Stop

Next ==
  \/ \E urgent \in BOOLEAN : Log(urgent)
  \/ Shutdown \/ EndPool \/ Join
  \/ Worker

Spec == Init /\ [][Next]_vars

\* Both threads run on.  That main() ever shuts the logger down is not assumed.
FairSpec == Spec /\ WF_vars(EndPool) /\ WF_vars(Join) /\ WF_vars(Worker)

-----------------------------------------------------------------------------
(* Safety.                                                                 *)

\* The type of every variable.
TypeOK ==
  /\ stage \in {"logging", "flushing", "joining", "down"}
  /\ logged \in Nat
  /\ queue \in Seq(Items)
  /\ Len(queue) <= Capacity
  /\ worker \in {"waiting", "busy", "done"}
  /\ hand \in Items
  /\ written \in Seq(Nat \ {0})
  /\ flushed \in 0..Len(written)
  /\ lost \subseteq 1..logged
  /\ DOMAIN output \subseteq Sinks
  /\ \A s \in DOMAIN output : output[s] \in Seq(Nat \ {0})
  /\ failed \subseteq (DOMAIN output) \X (1..logged)

\* The messages on their way to the sinks.
Pending ==
  {queue[i].n : i \in {j \in DOMAIN queue : queue[j].type = "log"}}
    \cup (IF worker = "busy" /\ hand.type = "log" THEN {hand.n} ELSE {})

\* Every message logged reaches the sinks, is on its way there, or was
\* dropped by a full queue, and none is on its way once the logger is down.
EveryMessageAccounted ==
  /\ 1..logged = {written[i] : i \in DOMAIN written} \cup Pending \cup lost
  /\ stage = "down" => Pending = {}

\* Messages reach the sinks in the order they were logged, each once, and
\* those on their way come behind those that were written.
WrittenInOrder ==
  /\ \A i, j \in DOMAIN written : i < j => written[i] < written[j]
  /\ \A i \in DOMAIN written, n \in Pending : written[i] < n

\* A sink misses nothing but the messages it failed on itself, and puts out
\* the others in the order they were logged.
SinksIndependent ==
  \A s \in DOMAIN output :
    /\ {output[s][i] : i \in DOMAIN output[s]} =
         {n \in {written[i] : i \in DOMAIN written} : <<s, n>> \notin failed}
    /\ \A i, j \in DOMAIN output[s] : i < j => output[s][i] < output[s][j]

\* A full queue drops what is oldest: once the logger is down, all but one
\* of the Capacity messages logged last were written, whatever the worker's
\* delay.  The one is the price of the flush, which takes a place too.
NewestAreWritten ==
  stage = "down" =>
    \A n \in 1..logged :
      n + Capacity > logged + 1 => \E i \in DOMAIN written : written[i] = n

\* Once the logger is down everything written is flushed: no message comes
\* behind the flush and none drops it.
AllFlushedWhenDown == stage = "down" => flushed = Len(written)

\* Liveness, under FairSpec: the shutdown of a logger ends, even when it
\* finds the queue full.
ShutdownEnds == stage = "flushing" ~> stage = "down"

=============================================================================
