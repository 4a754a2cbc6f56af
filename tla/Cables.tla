------------------------------- MODULE Cables -------------------------------
(***************************************************************************)
(* What the cables of the newloop are built on: the shared-memory socket   *)
(* c_turbosocket, the asio service manager with the cards that draw on it, *)
(* and vector_mutexed_obj.  Three parts with variables of their own.       *)
(***************************************************************************)
EXTENDS Integers, Sequences, FiniteSets

CONSTANTS Direction,        \* of a turbosocket: "c2s", "s2c"
          MaxMessage,       \* bound: messages sent in one direction
          MaxWake,          \* bound: waits of one side that end by themselves
          Capacity,         \* size of m_ioservice_array
          Selector,         \* card selectors
          Caller,           \* threads that use a vector_mutexed_obj
          Element,          \* bound: its elements, 1 .. Element
          MaxUse            \* bound: calls by one thread

ASSUME CableConstants ==
  /\ Direction \subseteq {"c2s", "s2c"}
  /\ {MaxMessage, Capacity, Element, MaxUse} \subseteq Nat \ {0} /\ MaxWake \in Nat

VARIABLES shm,              \* the shared memory: "none", "created", "queued", "open"
          header, writer, reader, sent, delivered, ready,
          wakes,            \* waits of the writer and of the reader that ended by themselves
          m_size, service, stop_flag, m_last_ioservice, manager, cards,
          m_data, call, m_mutex_all, uses

turboVars == <<shm, header, writer, reader, sent, delivered, ready, wakes>>
siomVars == <<m_size, service, stop_flag, m_last_ioservice, manager, cards>>
vectorVars == <<m_data, call, m_mutex_all, uses>>

-----------------------------------------------------------------------------
\* c_turbosocket.  A message is its number, and its size is 0 for every second one.
\* What fresh shared memory holds before the first message is number 0, of size 0.

NoHeader == [mutex |-> "free", message_in |-> FALSE, data |-> 0]
BufferSize == 2
SizeOf(n) == n % 2

TurboInit ==
  /\ shm = "none"
  /\ header = [d \in Direction |-> NoHeader]
  /\ writer = [d \in Direction |-> "idle"] /\ reader = [d \in Direction |-> "idle"]
  /\ sent = [d \in Direction |-> 0] /\ delivered = [d \in Direction |-> <<>>]
  /\ ready = [d \in Direction |-> FALSE]
  /\ wakes = [d \in Direction |-> [W |-> 0, R |-> 0]]

dirVars == <<header, writer, reader, sent, delivered, ready, wakes>>

\* create_shm, the name sent over the message queue, open_shm.
connect_as_client ==
  \/ shm = "none" /\ shm' = "created" /\ UNCHANGED dirVars
  \/ shm = "created" /\ shm' = "queued" /\ UNCHANGED dirVars

wait_for_connection == shm = "queued" /\ shm' = "open" /\ UNCHANGED dirVars

\* The client may write as soon as the memory is created; the server needs it open.
Mapped(d, who) == shm = "open" \/ (shm = "queued" /\ (d = "c2s") = (who = "W"))

Lock(d, who) == header[d].mutex = "free" /\ header' = [header EXCEPT ![d].mutex = who]

MutWriteAnyway(d) ==
  /\ Mapped(d, "W") /\ sent[d] < MaxMessage /\ writer[d] = "idle"
  /\ Lock(d, "W") /\ writer' = [writer EXCEPT ![d] = "hold"]
  /\ UNCHANGED <<shm, reader, sent, delivered, ready, wakes>>

\* A wait on cond_full or cond_empty may end although nobody notified it.
SpuriousWake(d) ==
  /\ \/ /\ writer[d] = "wait_full" /\ wakes[d].W < MaxWake
        /\ writer' = [writer EXCEPT ![d] = "woken"]
        /\ wakes' = [wakes EXCEPT ![d].W = @ + 1] /\ UNCHANGED reader
     \/ /\ reader[d] = "wait_empty" /\ wakes[d].R < MaxWake
        /\ reader' = [reader EXCEPT ![d] = "woken"]
        /\ wakes' = [wakes EXCEPT ![d].R = @ + 1] /\ UNCHANGED writer
  /\ UNCHANGED <<shm, header, sent, delivered, ready>>

\* One look at message_in, not a loop: whoever is woken goes on, whatever it is by then.
get_buffer_for_write(d) ==
  /\ Mapped(d, "W") /\ sent[d] < MaxMessage
  /\ \/ /\ writer[d] = "idle"
        /\ IF header[d].message_in
           THEN /\ header[d].mutex = "free" /\ UNCHANGED header
                /\ writer' = [writer EXCEPT ![d] = "wait_full"]
           ELSE Lock(d, "W") /\ writer' = [writer EXCEPT ![d] = "hold"]
     \/ /\ writer[d] = "woken" /\ Lock(d, "W")
        /\ writer' = [writer EXCEPT ![d] = "hold"]
  /\ UNCHANGED <<shm, reader, sent, delivered, ready, wakes>>

send_to(d) ==
  /\ writer[d] = "hold"
  /\ sent' = [sent EXCEPT ![d] = @ + 1]
  /\ header' = [header EXCEPT ![d] = [mutex |-> "free", message_in |-> TRUE, data |-> sent'[d]]]
  /\ reader' = [reader EXCEPT ![d] = IF @ = "wait_empty" THEN "woken" ELSE @]
  /\ writer' = [writer EXCEPT ![d] = "idle"]
  /\ UNCHANGED <<shm, delivered, ready, wakes>>

get_buffer_for_read(d) ==
  /\ Mapped(d, "R")
  /\ \/ /\ reader[d] = "idle"
        /\ IF ~header[d].message_in
           THEN /\ header[d].mutex = "free" /\ UNCHANGED header
                /\ reader' = [reader EXCEPT ![d] = "wait_empty"]
           ELSE Lock(d, "R") /\ reader' = [reader EXCEPT ![d] = "hold"]
     \/ /\ reader[d] = "woken" /\ Lock(d, "R")
        /\ reader' = [reader EXCEPT ![d] = "hold"]
  /\ UNCHANGED <<shm, writer, sent, delivered, ready, wakes>>

\* The caller has read the data.  The server takes a size of 0 for the whole buffer.
ReadSize(d, n) == IF d = "c2s" /\ SizeOf(n) = 0 THEN BufferSize ELSE SizeOf(n)

received_from(d) ==
  /\ reader[d] = "hold"
  /\ delivered' = [delivered EXCEPT ![d] =
                     Append(@, [nr |-> header[d].data, size |-> ReadSize(d, header[d].data)])]
  /\ header' = [header EXCEPT ![d].mutex = "free", ![d].message_in = FALSE]
  /\ writer' = [writer EXCEPT ![d] = IF @ = "wait_full" THEN "woken" ELSE @]
  /\ reader' = [reader EXCEPT ![d] = "idle"]
  /\ ready' = [ready EXCEPT ![d] = FALSE]
  /\ UNCHANGED <<shm, sent, wakes>>

\* try_lock: a locked buffer counts as not ready.
server_data_ready_for_read ==
  /\ "c2s" \in Direction /\ Mapped("c2s", "R") /\ reader["c2s"] = "idle"
  /\ ready' = [ready EXCEPT !["c2s"] = header["c2s"].mutex = "free" /\ header["c2s"].message_in]
  /\ UNCHANGED <<shm, header, writer, reader, sent, delivered, wakes>>

TurboNext ==
  \/ connect_as_client \/ wait_for_connection \/ server_data_ready_for_read
  \/ \E d \in Direction : \/ get_buffer_for_write(d) \/ send_to(d)
                          \/ get_buffer_for_read(d) \/ received_from(d)
                          \/ SpuriousWake(d)

-----------------------------------------------------------------------------
\* c_asioservice_manager and c_cable_cards.  Each operation holds the recursive
\* mutex; the destructor holds it while it joins.  Service i runs on thread i.

Services == 0 .. Capacity - 1
Used == 0 .. m_size - 1

SiomInit ==
  /\ m_size = 0 /\ service = [i \in Services |-> "none"]
  /\ stop_flag = [i \in Services |-> FALSE]
  /\ m_last_ioservice = 0 /\ manager = "none" /\ cards = [s \in {} |-> 0]

\* The threads of services from .. to - 1 are started; they will call run().
run_ioservice(from, to) ==
  service' = [i \in Services |-> IF i \in from .. to - 1 THEN "starting" ELSE service[i]]

MutStopUsed == [i \in Services |-> stop_flag[i] \/ i \in Used \ {m_size - 1}]

StopUsed == [i \in Services |-> stop_flag[i] \/ i \in Used]

\* get_asioservice allocates the manager with one service.
get_asioservice ==
  /\ manager = "none" /\ manager' = "alive" /\ m_size' = 1 /\ run_ioservice(0, 1)
  /\ UNCHANGED <<stop_flag, m_last_ioservice, cards>>

\* m_stop is never set, so the manager also grows after stop_all_threadsafe.
resize_to_at_least(n) ==
  /\ manager = "alive" /\ n > m_size /\ n <= Capacity
  /\ m_size' = n /\ run_ioservice(m_size, n)
  /\ UNCHANGED <<stop_flag, m_last_ioservice, manager, cards>>

MutNextModCapacity == (m_last_ioservice + 1) % Capacity

get_next_ioservice == (m_last_ioservice + 1) % m_size

\* The constructor of a card takes the next service; opening its sockets may throw.
get_card(s) ==
  /\ manager = "alive" /\ s \notin DOMAIN cards
  /\ m_last_ioservice' = get_next_ioservice
  /\ \/ cards' = [c \in DOMAIN cards \cup {s} |-> IF c = s THEN m_last_ioservice' ELSE cards[c]]
     \/ UNCHANGED cards
  /\ UNCHANGED <<m_size, service, stop_flag, manager>>

stop_all_threadsafe ==
  /\ manager = "alive" /\ stop_flag' = StopUsed
  /\ UNCHANGED <<m_size, service, m_last_ioservice, manager, cards>>

\* io_service::run returns at once when stop was called before it.
ServiceThread(i) ==
  /\ \/ service[i] = "starting"
        /\ service' = [service EXCEPT ![i] = IF stop_flag[i] THEN "done" ELSE "running"]
     \/ service[i] = "running" /\ stop_flag[i]
        /\ service' = [service EXCEPT ![i] = "done"]
  /\ UNCHANGED <<m_size, stop_flag, m_last_ioservice, manager, cards>>

\* The cards go first, then the manager stops its services and joins the threads.
SiomDestructor ==
  /\ manager = "alive" /\ manager' = "joining" /\ stop_flag' = StopUsed
  /\ cards' = [s \in {} |-> 0] /\ UNCHANGED <<m_size, service, m_last_ioservice>>

SiomJoin ==
  /\ manager = "joining" /\ manager' = "destroyed"
  /\ \A i \in Used : service[i] = "done"
  /\ UNCHANGED <<m_size, service, stop_flag, m_last_ioservice, cards>>

SiomNext ==
  \/ get_asioservice \/ stop_all_threadsafe \/ SiomDestructor \/ SiomJoin
  \/ \E n \in 1 .. Capacity : resize_to_at_least(n)
  \/ \E s \in Selector : get_card(s)
  \/ \E i \in Services : ServiceThread(i)

SiomFairness == WF_siomVars(SiomJoin) /\ \A i \in Services : WF_siomVars(ServiceThread(i))

-----------------------------------------------------------------------------
\* vector_mutexed_obj.  An element is "match" or "used".
\* fun_test asks for "match", fun_run makes it "used" (as the workers of a weld do).

NoCall == [at |-> "idle", i |-> 0, so_far |-> 0]

VectorInit ==
  /\ m_data = <<>> /\ call = [c \in Caller |-> NoCall]
  /\ m_mutex_all = {}        \* the threads that hold it as readers
  /\ uses = [e \in 1 .. Element |-> 0]

\* Needs the container's lock for itself.
push_back ==
  /\ m_mutex_all = {} /\ Len(m_data) < Element
  /\ m_data' = Append(m_data, [state |-> "match", RW |-> FALSE])
  /\ UNCHANGED <<call, m_mutex_all, uses>>

\* run_on: the container's lock is held only to find the element; the function
\* gives it back as "match".
run_on(c, i) ==
  /\ call[c].at = "idle" /\ i \in DOMAIN m_data /\ uses[i] < MaxUse /\ ~m_data[i].RW
  /\ m_data[i].state = "used"
  /\ m_data' = [m_data EXCEPT ![i].state = "match"]
  /\ UNCHANGED <<call, m_mutex_all, uses>>

run_on_matching(c) ==
  /\ call[c].at = "idle"
  /\ call' = [call EXCEPT ![c] = [NoCall EXCEPT !.at = "test", !.i = 1]]
  /\ m_mutex_all' = m_mutex_all \cup {c} /\ UNCHANGED <<m_data, uses>>

\* fun_test under the shared lock of the element; then no lock is held for a moment.
TestElement(c) ==
  /\ call[c].at = "test" /\ UNCHANGED <<m_data, uses>>
  /\ LET i == call[c].i IN
     IF i > Len(m_data)
     THEN /\ call' = [call EXCEPT ![c] = NoCall]   \* throws: no match, or not enough
          /\ m_mutex_all' = m_mutex_all \ {c}
     ELSE /\ ~m_data[i].RW /\ UNCHANGED m_mutex_all
          /\ call' = [call EXCEPT ![c] = IF m_data[i].state = "match" THEN [@ EXCEPT !.at = "matched"]
                                         ELSE [@ EXCEPT !.i = i + 1]]

MutMatchedAgain(i) == TRUE

MatchedAgain(i) == m_data[i].state = "match"

\* Under the element's own lock: the test again, then fun_run, limit_matched times.
LockMatched(c, limit_matched) ==
  /\ call[c].at = "matched"
  /\ LET i == call[c].i IN
     /\ ~m_data[i].RW
     /\ IF MatchedAgain(i)
        THEN /\ m_data' = [m_data EXCEPT ![i].RW = TRUE]
             /\ call' = [call EXCEPT ![c].at = IF call[c].so_far + 1 >= limit_matched THEN "last" ELSE "run",
                                     ![c].so_far = @ + 1]
        ELSE /\ call' = [call EXCEPT ![c].at = "test", ![c].i = i + 1] /\ UNCHANGED m_data
  /\ UNCHANGED <<m_mutex_all, uses>>

RunElement(c) ==
  /\ call[c].at \in {"run", "last"}
  /\ LET i == call[c].i IN
     /\ m_data' = [m_data EXCEPT ![i] = [state |-> "used", RW |-> FALSE]]
     /\ uses' = [uses EXCEPT ![i] = @ + 1]
     /\ IF call[c].at = "last"
        THEN call' = [call EXCEPT ![c] = NoCall] /\ m_mutex_all' = m_mutex_all \ {c}
        ELSE call' = [call EXCEPT ![c].at = "test", ![c].i = i + 1] /\ UNCHANGED m_mutex_all

VectorNext ==
  \/ push_back
  \/ \E c \in Caller : \/ run_on_matching(c) \/ TestElement(c) \/ RunElement(c)
                       \/ \E limit \in {1, 2} : LockMatched(c, limit)
                       \/ \E i \in 1 .. Element : run_on(c, i)

-----------------------------------------------------------------------------
CablesTypeOK ==
  /\ shm \in {"none", "created", "queued", "open"}
  /\ \A d \in Direction : header[d].mutex \in {"free", "W", "R"} /\ header[d].data \in 0 .. MaxMessage
  /\ m_size \in 0 .. Capacity /\ DOMAIN cards \subseteq Selector
  /\ Len(m_data) <= Element /\ m_mutex_all \subseteq Caller

\* What is read never goes back and comes with the size it was sent with (the server
\* reads an empty message as a full buffer).  Both sides look at message_in only once:
\* a writer's wait that ends by itself loses at most one message, which is overwritten
\* unread, a reader's makes it read at most one again, and nothing else loses or repeats
\* one.  The two sides never wait for each other, and when server_data_ready_for_read
\* has said yes, the read that follows does not wait.
TurboInOrder ==
  \A d \in Direction :
    /\ \A k \in DOMAIN delivered[d] :
         LET nr == delivered[d][k].nr IN
         /\ k - wakes[d].R <= nr /\ nr <= k + wakes[d].W
         /\ \A j \in 1 .. k - 1 : delivered[d][j].nr <= nr
         /\ SizeOf(nr) # 0 => delivered[d][k].size = SizeOf(nr)
    /\ reader[d] = "wait_empty" => writer[d] # "wait_full" /\ ~ready[d]

\* Every card was given a service the manager runs, however often it was resized.
CardsAreServed == \A s \in DOMAIN cards : cards[s] < m_size

\* The destructor of the manager ends, also when it is called before the threads of
\* new services have reached run(), and after a stop and a resize.
SiomJoins == (manager = "joining") ~> (manager = "destroyed")

\* fun_run finds what fun_test asked for: no thread uses an element that another
\* one has used since it was tested.
MatchedOnUse ==
  \A c \in Caller : call[c].at \in {"run", "last"} =>
    /\ m_data[call[c].i].state = "match" /\ m_data[call[c].i].RW
    /\ \A o \in Caller \ {c} : call[o].at \in {"run", "last"} => call[o].i # call[c].i
=============================================================================
