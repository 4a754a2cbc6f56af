------------------------------- MODULE NetTools -------------------------------
(***************************************************************************)
(* The measuring tools of src/src-tools/netutils and the statistics they   *)
(* share: the sender (with a command line or with commands that arrive     *)
(* over TCP), the receiver that hands every buffer back to asio, the one   *)
(* that blocks, and the timer that collects what the threads count, either *)
(* at once or through a small timer of the thread's own (netmodel).        *)
(* Time is whatever the clock may say: a limit is reached or not.          *)
(***************************************************************************)
EXTENDS Integers, Sequences, FiniteSets, SequencesExt, FiniteSetsExt

CONSTANTS Burst,       \* packets between two looks at the clock (50)
          MaxCount,    \* bound: packets to send
          Receiver,    \* threads of the receiver, one buffer each
          UpdateAfter, \* m_update_interval_count of c_timeradd
          StepsTillReset, \* m_step_till_reset of c_timerfoo
          MaxReceived, \* bound: datagrams received
          MaxSpeed,    \* speeds are 0 .. MaxSpeed
          FullTests    \* full tests of the blocking receiver (10)

ASSUME ToolConstants ==
  /\ Burst \in Nat \ {0} /\ MaxCount \in Nat /\ IsFiniteSet(Receiver) /\ UpdateAfter \in Nat
  /\ StepsTillReset \in Nat \ {0} /\ MaxReceived \in Nat /\ MaxSpeed \in Nat /\ FullTests \in Nat \ {0}

VARIABLES tool,         \* the sender: where it is
          arg,          \* its command line
          packets_sent,
          command,      \* the command of a remote client
          armed,        \* buffers the receiver handed to asio
          timeradd,     \* timeradd[r]: counted by r, not yet in the timer
          m_total_bytes,
          received,     \* datagrams that arrived (each counts 1)
          m_step_nr,
          m_speed_tab,  \* speeds collected since the last reset
          block         \* the blocking receiver: its counters and speeds

sendVars == <<tool, arg, packets_sent, command>>
recvVars == <<armed, timeradd, m_total_bytes, received, m_step_nr, m_speed_tab, block>>
toolVars == <<sendVars, recvVars>>

ToolTypeOK ==
  /\ tool \in {"start", "usage", "undefined", "sending", "look", "sent", "limit",
               "accept", "command", "expired"}
  /\ packets_sent \in 0 .. MaxCount + Burst
  /\ armed \subseteq Receiver
  /\ timeradd \in [Receiver -> 0 .. UpdateAfter]
  /\ m_total_bytes \in 0 .. MaxReceived
  /\ received \in 0 .. MaxReceived
  /\ m_step_nr \in 0 .. StepsTillReset - 1
  /\ m_speed_tab \in Seq(0 .. MaxSpeed)
  /\ block \in [count_interval : 0 .. 1, speed_tab : Seq(0 .. MaxSpeed), all_done : BOOLEAN]

\* count -1 sends for ever; a limit may be given after it.
ToolInit ==
  /\ tool = "start"
  /\ arg \in [argc : 2 .. 8, remote : BOOLEAN, count : -1 .. MaxCount, limit : BOOLEAN]
  /\ arg.argc < 6 /\ ~arg.remote => arg.count # -1 /\ ~arg.limit
  /\ packets_sent = 0
  /\ command = "none"
  /\ armed = {}
  /\ timeradd = [r \in Receiver |-> 0]
  /\ m_total_bytes = 0
  /\ received = 0
  /\ m_step_nr = 0
  /\ m_speed_tab = <<>>
  /\ block = [count_interval |-> 0, speed_tab |-> <<>>, all_done |-> FALSE]

-----------------------------------------------------------------------------
\* The sender.

\* run() asks for two arguments and reads the third, and from six on it reads
\* the seventh: the end of argv is a null pointer.
ReadsPastArgv(argc) == argc \in {3, 6}

run ==
  /\ tool = "start" /\ ~arg.remote
  /\ tool' = IF arg.argc < 3 THEN "usage"
             ELSE IF ReadsPastArgv(arg.argc) THEN "undefined"
             ELSE "sending"
  /\ UNCHANGED <<arg, packets_sent, command, recvVars>>

\* Packets are counted one by one inside a burst.
func_done == arg.count # -1 /\ packets_sent >= arg.count

SendBurst ==
  /\ tool = "sending" /\ ~func_done
  /\ LET n == IF arg.count = -1 THEN Burst ELSE Min({Burst, arg.count - packets_sent})
     IN  /\ packets_sent + n <= MaxCount + Burst
         /\ packets_sent' = packets_sent + n
  /\ tool' = "look"
  /\ UNCHANGED <<arg, command, recvVars>>

\* The limits are only looked at when it is time to print.
LookAtClock(print, reached) ==
  /\ tool = "look"
  /\ tool' = IF print /\ reached /\ arg.limit THEN "limit" ELSE "sending"
  /\ UNCHANGED <<arg, packets_sent, command, recvVars>>

\* The end of a send: a command that came over TCP is answered DONE and the
\* next one is read; without the message on the command line the user is
\* asked for the next one.
SendEnds ==
  /\ (tool = "sending" /\ func_done) \/ (tool = "limit" /\ arg.remote)
  /\ IF arg.remote
     THEN tool' = "command" /\ UNCHANGED <<arg, packets_sent>>
     ELSE IF arg.argc < 6
     THEN /\ \E c \in 0 .. MaxCount : arg' = [arg EXCEPT !.count = c]
          /\ packets_sent' = 0
          /\ UNCHANGED tool
     ELSE tool' = "sent" /\ UNCHANGED <<arg, packets_sent>>
  /\ command' = "none"
  /\ UNCHANGED recvVars

run_remote ==
  /\ tool = "start" /\ arg.remote
  /\ tool' = IF arg.argc < 7 THEN "usage" ELSE "accept"
  /\ UNCHANGED <<arg, packets_sent, command, recvVars>>

\* An address that is not authorized is closed by the guard of the socket.
start_listen(late, authorized) ==
  /\ tool = "accept"
  /\ tool' = IF late THEN "expired" ELSE IF authorized THEN "command" ELSE "accept"
  /\ UNCHANGED <<arg, packets_sent, command, recvVars>>

\* A command without the password, or without SEND, throws; the exception is
\* caught around it, so the client reads DONE either way.
run_rpc_command_string(text) ==
  /\ tool = "command" /\ command = "none"
  /\ IF text = "valid"
     THEN tool' = "sending" /\ command' = text /\ packets_sent' = 0
     ELSE UNCHANGED <<tool, command, packets_sent>>
  /\ UNCHANGED <<arg, recvVars>>

\* The connection ends by an exception, or the time is over.
SessionEnds(late) ==
  /\ tool = "command" /\ command = "none"
  /\ tool' = IF late THEN "expired" ELSE "accept"
  /\ UNCHANGED <<arg, packets_sent, command, recvVars>>

-----------------------------------------------------------------------------
\* The receiver and its timer.

run_tests ==
  /\ received = 0 /\ armed = {} /\ block.speed_tab = <<>> /\ block.count_interval = 0
  /\ armed' = Receiver
  /\ UNCHANGED <<sendVars, timeradd, m_total_bytes, received, m_step_nr, m_speed_tab,
                 block>>

\* c_timerfoo::add.
timer_add(n) == m_total_bytes' = m_total_bytes + n

\* A datagram is counted in the timer at once, and the buffer is armed again,
\* after an error too.
handler(r) ==
  /\ r \in armed /\ received < MaxReceived
  /\ received' = received + 1
  /\ timer_add(1)
  /\ UNCHANGED <<sendVars, armed, timeradd, m_step_nr, m_speed_tab, block>>

\* c_timeradd::add: a thread of netmodel keeps its own count and hands it to
\* the timer when it is above the interval.
add(r) ==
  /\ armed # {} /\ received < MaxReceived
  /\ received' = received + 1
  /\ LET mine == timeradd[r] + 1
     IN  IF mine > UpdateAfter
         THEN /\ timer_add(mine)
              /\ timeradd' = [timeradd EXCEPT ![r] = 0]
         ELSE /\ timeradd' = [timeradd EXCEPT ![r] = mine]
              /\ UNCHANGED m_total_bytes
  /\ UNCHANGED <<sendVars, armed, m_step_nr, m_speed_tab, block>>

MutStepLate(speed_now, short) ==
  /\ armed # {}
  /\ IF m_step_nr >= StepsTillReset
     THEN m_step_nr' = 0 /\ m_speed_tab' = <<>>
     ELSE m_step_nr' = m_step_nr + 1 /\ m_speed_tab' = Append(m_speed_tab, speed_now)
  /\ UNCHANGED <<sendVars, armed, timeradd, m_total_bytes, received, block>>

reset == m_step_nr' = 0 /\ m_speed_tab' = <<>>

\* c_timerfoo::step: a sample from too short a time is left out; the table is
\* cleared after m_step_till_reset steps.
step(speed_now, short) ==
  /\ armed # {}
  /\ IF m_step_nr + 1 >= StepsTillReset
     THEN reset
     ELSE /\ m_step_nr' = m_step_nr + 1
          /\ m_speed_tab' = IF short THEN m_speed_tab ELSE Append(m_speed_tab, speed_now)
  /\ UNCHANGED <<sendVars, armed, timeradd, m_total_bytes, received, block>>

\* The blocking receiver: an interval is over, which is the first or the
\* second of a full test; a full test adds a speed, the last one ends the loop.
server(speed) ==
  /\ ~block.all_done /\ armed = {}
  /\ block' = IF block.count_interval = 0 THEN [block EXCEPT !.count_interval = 1]
              ELSE [count_interval |-> 0, speed_tab |-> Append(block.speed_tab, speed),
                    all_done |-> Len(block.speed_tab) + 1 = FullTests]
  /\ UNCHANGED <<sendVars, armed, timeradd, m_total_bytes, received, m_step_nr, m_speed_tab>>

MutMedianUnsorted(tab) ==
  LET n == Len(tab)
  IN  IF n = 0 THEN 0
      ELSE IF n % 2 = 1 THEN 2 * tab[(n \div 2) + 1]
      ELSE tab[n \div 2] + tab[(n \div 2) + 1]

\* std::sort: the same values, from the smallest on.
sort(tab) ==
  LET n == Len(tab)
      p == CHOOSE p \in Bijection(1 .. n, 1 .. n) :
             \A i, j \in 1 .. n : i < j => tab[p[i]] <= tab[p[j]]
  IN  [i \in 1 .. n |-> tab[p[i]]]

\* Twice the median, as the code computes it from the sorted table.
mediana(tab) ==
  LET sorted == sort(tab)
      n == Len(tab)
  IN  IF n = 0 THEN 0
      ELSE IF n % 2 = 1 THEN 2 * sorted[(n \div 2) + 1]
      ELSE sorted[n \div 2] + sorted[(n \div 2) + 1]

\* The samples corrected_avg takes: a quarter at either end is left out, and
\* the last one of the rest too.
corrected_avg_range(n) ==
  LET margin == Max({1, n \div 4})
      pos1 == margin
      pos2 == n - 1 - margin
  IN  IF n <= 1 THEN 1 .. n
      ELSE IF pos2 - pos1 < 2 THEN {} ELSE pos1 + 1 .. pos2

\* c_timerfoo::calc_avg.
calc_avg(tab) == [avg1 |-> mediana(tab), avg2 |-> corrected_avg_range(Len(tab))]

\* The tools are programs of their own.
SendNext ==
  \/ run \/ SendBurst \/ SendEnds \/ run_remote
  \/ \E print, reached \in BOOLEAN : LookAtClock(print, reached)
  \/ \E late, authorized \in BOOLEAN : start_listen(late, authorized)
  \/ \E text \in {"valid", "wrong"} : run_rpc_command_string(text)
  \/ \E late \in BOOLEAN : SessionEnds(late)

RecvNext ==
  \/ run_tests
  \/ \E r \in Receiver : handler(r) \/ add(r)
  \/ \E speed \in 0 .. MaxSpeed : server(speed)
  \/ \E speed_now \in 0 .. MaxSpeed, short \in BOOLEAN : step(speed_now, short)

-----------------------------------------------------------------------------
\* Properties.

\* What the threads of a receiver count is neither lost nor counted twice on
\* its way to the timer, and a sender with a count ends at that count, unless
\* a limit stopped it: bursts do not run over the end.
CountsAreExact ==
  /\ MapThenSumSet(LAMBDA r : timeradd[r], Receiver) + m_total_bytes = received
  /\ arg.count # -1 => packets_sent <= arg.count
  /\ tool = "sent" => packets_sent = arg.count

\* The median has at most half of the samples on either side, and the average
\* takes its samples from inside the table, whichever samples were left out
\* and whenever the table was cleared.
MedianIsMiddle ==
  \A tab \in {m_speed_tab, block.speed_tab} :
    LET m == calc_avg(tab).avg1
        n == Len(tab)
    IN  /\ 2 * Cardinality({i \in 1 .. n : 2 * tab[i] < m}) <= n
        /\ 2 * Cardinality({i \in 1 .. n : 2 * tab[i] > m}) <= n
        /\ calc_avg(tab).avg2 \subseteq 1 .. n
=============================================================================
