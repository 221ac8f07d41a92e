----------------------------- MODULE NetServer -------------------------------
(***************************************************************************)
(* The network server (net/serv.c), its helpers (net/timer.c, net/input.c, *)
(* net/output.c), its clients (lib/sockets.c, lib/nsipc.c), and the way a  *)
(* call takes through lwIP: a thread for each request, which leaves the    *)
(* work on a connection to the thread of tcpip.c and waits for it, or      *)
(* waits for a packet.  There is one UDP socket at a time.  That a message *)
(* of ipc_send is received is one step (module Ipc has the details).       *)
(* lwIP's timers are left out: they end a wait only to begin it again.     *)
(***************************************************************************)
EXTENDS Threads

CONSTANTS
  QUEUE_SIZE,
  MaxYields,      \* 32 in serve
  Client, First,  \* the clients, and the one that is there at the start
  May,            \* BOUND: the calls of the clients, pairs <<c, call>>
  MaxPackets,     \* BOUND: the packets that arrive
  MaxSockets      \* BOUND: the sockets that are made, one after the other

Buffer == 0 .. QUEUE_SIZE - 1

(* A thread that serves a request has the number of the request's buffer.  *)
Main == QUEUE_SIZE
Tcpip == QUEUE_SIZE + 1

ASSUME NetAssumption ==
  /\ QUEUE_SIZE \in Nat \ {0} /\ MaxYields \in Nat \ {0}
  /\ Thread = 0 .. QUEUE_SIZE + 1
  /\ First \in Client /\ NSEM > 4 /\ NMBOX > 1
  /\ May \subseteq Client \X {"socket", "api", "recv", "close", "nopage", "timer", "fork", "die"}

VARIABLES
  pc,      \* [Thread -> where the thread is, and with what]
  buse,    \* SUBSET Buffer
  conn,    \* the netconn of the one socket: [op, mbox, pcb], or NoConn
  made,    \* the number of sockets made
  panic,   \* why the server has stopped, or ""
  client,  \* [Client -> [at, type]]
  fd,      \* [Client -> BOOLEAN]: has the struct Fd of the socket mapped
  input,   \* where the input helper is
  page,    \* its nsipcbuf: [len, head, tail], the number of the packet that the
           \* length and each half of the data are of
  timer,   \* "due" or "wait"
  output   \* "recv" or "busy": with a packet that the driver has not taken

server == <<k, queue, cur, pc, buse, conn, made, panic>>
helpers == <<input, page, timer, output>>
vars == <<server, client, fd, helpers>>

NoConn == [op |-> NULL]
Unused == [at |-> "unused"]
Flush == [at |-> "flush", i |-> 0]

(* serve_init has run: the thread of tcpip.c has its mailbox, number       *)
(* NMBOX - 1, and no work; serve begins.                                   *)
Init ==
  /\ k = [sys_mbox_new(sys_init) EXCEPT
            !.sem[NSEM - 1].waiters = TRUE,
            !.tc[Tcpip] = [addr |-> NSEM - 1, gen |-> 1, wakeup |-> FALSE]]
  /\ queue = <<Tcpip>>
  /\ cur = Main
  /\ pc = [t \in Thread |->
             IF t = Main THEN Flush ELSE IF t = Tcpip THEN [at |-> "loop"] ELSE Unused]
  /\ buse = {}
  /\ conn = NoConn /\ made = 0
  /\ panic = ""
  /\ client = [c \in Client |-> [at |-> IF c = First THEN "idle" ELSE "unborn", type |-> ""]]
  /\ fd = [c \in Client |-> FALSE]
  /\ input = "poll" /\ page = [len |-> 0, head |-> 0, tail |-> 0]
  /\ timer = "due" /\ output = "recv"

Runs(t, where) == panic = "" /\ cur = t /\ pc[t].at = where
Goto(t, p) == pc' = [pc EXCEPT ![t] = p]

Panics(why) ==
  /\ panic' = why
  /\ UNCHANGED <<k, queue, cur, pc, buse, conn, made>>

-----------------------------------------------------------------------------
(* The main thread                                                         *)

MoreToDo == thread_wakeups_pending /\ pc[Main].i < MaxYields

Yield ==
  /\ Runs(Main, "flush") /\ MoreToDo
  /\ Goto(Main, [Flush EXCEPT !.i = pc[Main].i + 1])
  /\ thread_yield(k)
  /\ UNCHANGED <<buse, conn, made, panic, client, fd, helpers>>

(* Variant: the last buffer is not looked at.                              *)
NoneFree_OneShort == Buffer \ {QUEUE_SIZE - 1} \subseteq buse

NoneFree == Buffer \subseteq buse

GetBuffer ==
  /\ Runs(Main, "flush") /\ ~MoreToDo
  /\ IF NoneFree THEN Panics("overflow")
     ELSE LET va == Min(Buffer \ buse) IN
       /\ buse' = buse \cup {va}
       /\ Goto(Main, [at |-> "recv", va |-> va])
       /\ UNCHANGED <<k, queue, cur, conn, made, panic>>
  /\ UNCHANGED <<client, fd, helpers>>

(* The message of a sender that finds the server in ipc_recv               *)
Gets(req) ==
  /\ Runs(Main, "recv")
  /\ Goto(Main, [at |-> "got", va |-> pc[Main].va, req |-> req])
  /\ UNCHANGED <<k, queue, cur, buse, conn, made, panic>>

Got(type) == Runs(Main, "got") /\ pc[Main].req.type = type
va_ == pc[Main].va

(* Variant: whoever sends the message is answered like the timer.          *)
ProcessTimer_Anybody ==
  /\ Got("timer")
  /\ Goto(Main, [at |-> "tick", va |-> va_]) /\ thread_yield(k)
  /\ UNCHANGED <<buse, conn, made, panic, client, fd, helpers>>

(* process_timer: a message that is not from the timer is left unanswered. *)
ProcessTimer ==
  /\ Got("timer")
  /\ IF pc[Main].req.whom = "timer"
       THEN Goto(Main, [at |-> "tick", va |-> va_]) /\ thread_yield(k) /\ UNCHANGED buse
       ELSE Goto(Main, Flush) /\ buse' = buse \ {va_} /\ UNCHANGED <<k, queue, cur>>
  /\ UNCHANGED <<conn, made, panic, client, fd, helpers>>

(* Variant: the buffer of the timer's message is not put back.             *)
AnswerTimer_KeepsBuffer ==
  /\ Runs(Main, "tick") /\ timer = "wait"
  /\ timer' = "due"
  /\ Goto(Main, Flush)
  /\ UNCHANGED <<k, queue, cur, buse, conn, made, panic, client, fd, input, page, output>>

AnswerTimer ==
  /\ Runs(Main, "tick") /\ timer = "wait"
  /\ timer' = "due"
  /\ buse' = buse \ {va_}
  /\ Goto(Main, Flush)
  /\ UNCHANGED <<k, queue, cur, conn, made, panic, client, fd, input, page, output>>

(* A request without a page is left hanging, and so is its buffer.         *)
NoPage ==
  /\ Got("nopage")
  /\ Goto(Main, Flush)
  /\ UNCHANGED <<k, queue, cur, buse, conn, made, panic, client, fd, helpers>>

(* No memory for the arguments of a thread                                 *)
NoArgs ==
  /\ Runs(Main, "got") /\ pc[Main].req.type \notin {"timer", "nopage"}
  /\ Panics("memory")
  /\ UNCHANGED <<client, fd, helpers>>

(* A thread for the request, and a yield.  The result of thread_create is  *)
(* not looked at.                                                          *)
Serve(created) ==
  /\ Runs(Main, "got") /\ pc[Main].req.type \notin {"timer", "nopage"}
  /\ pc' = [pc EXCEPT ![Main] = Flush,
                      ![va_] = IF created THEN [at |-> "start", req |-> pc[Main].req] ELSE @]
  /\ Switch(IF created THEN queue \o <<va_, Main>> ELSE Append(queue, Main), k)
  /\ UNCHANGED <<buse, conn, made, panic, client, fd, helpers>>

-----------------------------------------------------------------------------
(* The threads of the requests: serve_thread                               *)

Starts(t, type) == t \in Buffer /\ Runs(t, "start") /\ pc[t].req.type = type
Step(t, where) == Goto(t, [pc[t] EXCEPT !.at = where])

(* lwip_socket: netconn_alloc takes a semaphore and a mailbox.             *)
Socket(t) ==
  /\ Starts(t, "socket")
  /\ conn' = [op |-> Head(k.sem_free), mbox |-> Head(k.mbox_free), pcb |-> FALSE]
  /\ made' = made + 1
  /\ k' = sys_mbox_new(sys_sem_new(0, k))
  /\ Step(t, "post")
  /\ UNCHANGED <<queue, cur, buse, panic, client, fd, helpers>>

(* The other calls, on a socket that is not there, return -1.              *)
Begin(t) ==
  /\ \E type \in {"api", "recv", "close"} : Starts(t, type)
  /\ IF conn = NoConn THEN Step(t, "reply")
     ELSE Step(t, IF pc[t].req.type = "recv" THEN "fetch" ELSE "post")
  /\ UNCHANGED <<k, queue, cur, buse, conn, made, panic, client, fd, helpers>>

MainMbox == NMBOX - 1

(* sys_mbox_trypost sleeps until there is room.                            *)
SleepForRoom(t) ==
  LET s == k.mbox[IF pc[t].at = "post" THEN MainMbox ELSE pc[t].mbox].free_msg IN
  /\ t \in Buffer /\ (Runs(t, "post") \/ Runs(t, "deliver"))
  /\ Blocks(t, s) /\ Block(t, s)
  /\ UNCHANGED <<pc, buse, conn, made, panic, client, fd, helpers>>

(* tcpip_apimsg: sys_mbox_post, and the wait for op_completed.             *)
ApiPost(t) ==
  LET s == k.mbox[MainMbox].free_msg IN
  /\ t \in Buffer /\ Runs(t, "post") /\ Acquires(t, s)
  /\ k' = Posted(MainMbox, [type |-> pc[t].req.type], Acquired(t, s))
  /\ Step(t, "wait")
  /\ UNCHANGED <<queue, cur, buse, conn, made, panic, client, fd, helpers>>

ApiWait(t) ==
  LET s == conn.op IN
  /\ t \in Buffer /\ Runs(t, "wait")
  /\ \/ Blocks(t, s) /\ Block(t, s) /\ UNCHANGED pc
     \/ /\ Acquires(t, s)
        /\ k' = Acquired(t, s)
        /\ Step(t, IF pc[t].req.type = "close" THEN "drain" ELSE "reply")
        /\ UNCHANGED <<queue, cur>>
  /\ UNCHANGED <<buse, conn, made, panic, client, fd, helpers>>

(* netconn_free: the mailbox is emptied and given back.                    *)
Drain(t) ==
  /\ t \in Buffer /\ Runs(t, "drain")
  /\ IF k.sem[k.mbox[conn.mbox].queued_msg].counter > 0
       THEN LET q == k.mbox[conn.mbox].queued_msg IN
         k' = Fetched(conn.mbox, Acquired(t, q)) /\ UNCHANGED <<conn, pc>>
       ELSE /\ k' = sys_sem_free(conn.op, sys_mbox_free(conn.mbox, k))
            /\ conn' = NoConn
            /\ Step(t, "reply")
  /\ UNCHANGED <<queue, cur, buse, made, panic, client, fd, helpers>>

(* lwip_socket and lwip_close end with a wait for socksem, for which lwIP  *)
(* keeps a record per thread: there may be no memory for it.               *)
NoTimeouts(t) ==
  /\ t \in Buffer
  /\ (Runs(t, "reply") /\ pc[t].req.type = "socket") \/ Runs(t, "drain")
  /\ Panics("memory")
  /\ UNCHANGED <<client, fd, helpers>>

(* netconn_recv.  If the mailbox went away under it, netconn_recv returns  *)
(* NULL, and lwip_recvfrom looks into the netconn of the socket.           *)
Fetch(t) ==
  LET s == k.mbox[conn.mbox].queued_msg IN
  /\ t \in Buffer /\ Runs(t, "fetch")
  /\ \/ Blocks(t, s) /\ Block(t, s) /\ UNCHANGED pc
     \/ /\ Acquires(t, s)
        /\ k' = Fetched(conn.mbox, Acquired(t, s))
        /\ Goto(t, [at |-> "reply", req |-> pc[t].req, got |-> MboxHead(conn.mbox, k)])
        /\ UNCHANGED <<queue, cur>>
  /\ UNCHANGED <<buse, conn, made, panic, client, fd, helpers>>

FetchBroken(t) ==
  /\ t \in Buffer /\ Runs(t, "fetch")
  /\ k.tc[t].addr # NULL /\ Broken(t, k.tc[t].addr)
  /\ IF conn = NoConn THEN Panics("fault")
     ELSE k' = GivenUp(t) /\ Step(t, "reply") /\ UNCHANGED <<queue, cur, buse, conn, made, panic>>
  /\ UNCHANGED <<client, fd, helpers>>

(* jif_input: the packet is copied from the page of the input helper, which*)
(* runs at the same time: the length, and the data in two halves.  Packet n*)
(* was announced; pkt.of are the packets that the parts copied are of.     *)
CopyLen(t) ==
  /\ Starts(t, "input")
  /\ Goto(t, [at |-> "copy", req |-> pc[t].req, pkt |-> [n |-> pc[t].req.n, of |-> {page.len}]])
  /\ UNCHANGED <<k, queue, cur, buse, conn, made, panic, client, fd, helpers>>

CopyHead(t) ==
  /\ t \in Buffer /\ Runs(t, "copy")
  /\ Goto(t, [at |-> "copy2", req |-> pc[t].req, pkt |-> [pc[t].pkt EXCEPT !.of = @ \cup {page.head}]])
  /\ UNCHANGED <<k, queue, cur, buse, conn, made, panic, client, fd, helpers>>

(* It goes up to recv_udp, if there is somebody to receive it; lwIP answers*)
(* it in the same thread (ARP, ICMP); or it is dropped.                    *)
CopyTail(t) ==
  /\ t \in Buffer /\ Runs(t, "copy2")
  /\ \/ /\ conn # NoConn /\ conn.pcb
        /\ Goto(t, [at |-> "deliver", req |-> pc[t].req, mbox |-> conn.mbox,
                    pkt |-> [pc[t].pkt EXCEPT !.of = @ \cup {page.tail}]])
     \/ \E where \in {"out", "finish"} : Goto(t, [at |-> where, req |-> pc[t].req])
  /\ UNCHANGED <<k, queue, cur, buse, conn, made, panic, client, fd, helpers>>

(* sys_mbox_trypost takes no notice of why its wait is over.  The          *)
(* semaphore that it signals may be freed by then.                         *)
Deliver(t) ==
  LET m == pc[t].mbox
      s == k.mbox[m].free_msg
      x == IF Broken(t, s) THEN GivenUp(t) ELSE Acquired(t, s) IN
  /\ t \in Buffer /\ Runs(t, "deliver") /\ ~Blocks(t, s)
  /\ IF MboxFull(m, x) THEN
       k' = x /\ Step(t, "finish") /\ UNCHANGED <<queue, cur, buse, conn, made, panic>>
     ELSE IF k.sem[k.mbox[m].queued_msg].freed THEN Panics("freed")
     ELSE /\ k' = Posted(m, pc[t].pkt.n, x)
          /\ Goto(t, [at |-> "finish", req |-> pc[t].req])
          /\ UNCHANGED <<queue, cur, buse, conn, made, panic>>
  /\ UNCHANGED <<client, fd, helpers>>

Ends(t) ==
  /\ pc' = [pc EXCEPT ![t] = Unused]
  /\ buse' = buse \ {t}
  /\ thread_halt(k)
  /\ UNCHANGED <<conn, made, panic>>

(* A packet has nobody to answer.                                          *)
Finish(t) ==
  /\ t \in Buffer /\ Runs(t, "finish")
  /\ Ends(t)
  /\ UNCHANGED <<client, fd, helpers>>

(* ipc_send panics if the client has died.                                 *)
Reply(t) ==
  LET c == pc[t].req.whom IN
  /\ t \in Buffer /\ Runs(t, "reply")
  /\ IF client[c].at = "gone" THEN Panics("dead") /\ UNCHANGED <<client, fd>>
     ELSE /\ Ends(t)
          /\ client' = [client EXCEPT ![c] = [at |-> "idle", type |-> ""]]
          /\ fd' = CASE client[c].type = "socket" -> [fd EXCEPT ![c] = TRUE]
                     [] client[c].type = "close" -> [fd EXCEPT ![c] = FALSE]
                     [] OTHER -> fd
  /\ UNCHANGED helpers

-----------------------------------------------------------------------------
(* The thread of tcpip.c: do_newconn, do_delconn and the others, each of   *)
(* which ends with sys_sem_signal on op_completed.  The first api call     *)
(* binds the socket: packets reach it from then on.  A packet may go out.  *)

Execute ==
  LET s == k.mbox[MainMbox].queued_msg
      msg == MboxHead(MainMbox, k) IN
  /\ Runs(Tcpip, "loop")
  /\ \/ Blocks(Tcpip, s) /\ Block(Tcpip, s) /\ UNCHANGED <<pc, conn>>
     \/ /\ Acquires(Tcpip, s)
        /\ k' = sys_sem_signal(conn.op, Fetched(MainMbox, Acquired(Tcpip, s)))
        /\ conn' = [conn EXCEPT !.pcb = CASE msg.type = "api" -> TRUE
                                          [] msg.type = "close" -> FALSE
                                          [] OTHER -> @]
        /\ \/ pc' = pc
           \/ msg.type = "api" /\ Goto(Tcpip, [at |-> "out"])
        /\ UNCHANGED <<queue, cur>>
  /\ UNCHANGED <<buse, made, panic, client, fd, helpers>>

(* low_level_output: a new page, and ipc_send, which keeps all threads     *)
(* waiting until the output helper is back in ipc_recv.  (It would also    *)
(* panic at more than 2000 bytes; the interface has an MTU of 1500.)       *)
Output(t) ==
  /\ Runs(t, "out") /\ output = "recv"
  /\ output' = "busy"
  /\ Goto(t, IF t = Tcpip THEN [at |-> "loop"] ELSE [at |-> "finish", req |-> pc[t].req])
  /\ UNCHANGED <<k, queue, cur, buse, conn, made, panic, client, fd, input, page, timer>>

OutputNoPage(t) ==
  /\ Runs(t, "out")
  /\ Panics("memory")
  /\ UNCHANGED <<client, fd, helpers>>

-----------------------------------------------------------------------------
(* The helpers                                                             *)

TimerTick ==
  /\ timer = "due"
  /\ Gets([type |-> "timer", whom |-> "timer"])
  /\ timer' = "wait"
  /\ UNCHANGED <<client, fd, input, page, output>>

(* The input helper puts the next packet into the page that it has sent    *)
(* before.                                                                 *)
Packet ==
  /\ input = "poll" /\ page.len < MaxPackets
  /\ page' = [page EXCEPT !.len = @ + 1]
  /\ input' = "head"
  /\ UNCHANGED <<server, client, fd, timer, output>>

PacketHead ==
  /\ input = "head"
  /\ page' = [page EXCEPT !.head = page.len]
  /\ input' = "tail"
  /\ UNCHANGED <<server, client, fd, timer, output>>

(* Variant: a packet is dropped if the server is busy.                     *)
PacketTail_Drops ==
  /\ input = "tail"
  /\ page' = [page EXCEPT !.tail = page.len]
  /\ input' = IF pc[Main].at = "recv" THEN "send" ELSE "poll"
  /\ UNCHANGED <<server, client, fd, timer, output>>

PacketTail ==
  /\ input = "tail"
  /\ page' = [page EXCEPT !.tail = page.len]
  /\ input' = "send"
  /\ UNCHANGED <<server, client, fd, timer, output>>

SendPacket ==
  /\ input = "send"
  /\ Gets([type |-> "input", whom |-> "input", n |-> page.len])
  /\ input' = "poll"
  /\ UNCHANGED <<client, fd, page, timer, output>>

(* The driver takes the packet, or refuses it as too large.                *)
Transmitted ==
  /\ output = "busy"
  /\ output' = "recv"
  /\ UNCHANGED <<server, client, fd, input, page, timer>>

(* The ring is full: sys_yield, and the next try.  e1000_transmit has no   *)
(* error for which the helper would panic.                                 *)
TransmitFull == output = "busy" /\ UNCHANGED vars

-----------------------------------------------------------------------------
(* The clients                                                             *)

At(c, where) == client[c].at = where
Become(c, where, type) == client' = [client EXCEPT ![c] = [at |-> where, type |-> type]]

(* nsipc, from the moment that the server receives the request.            *)
Call(c, type) ==
  /\ At(c, "idle") /\ <<c, type>> \in May
  /\ CASE type = "socket" -> conn = NoConn /\ made < MaxSockets
       [] type \in {"api", "recv"} -> fd[c]
       [] OTHER -> TRUE
  /\ Gets([type |-> type, whom |-> c])
  /\ Become(c, "wait", type)
  /\ UNCHANGED <<fd, helpers>>

(* devsock_close asks the server only if nobody else has the socket.       *)
Close(c) ==
  /\ At(c, "idle") /\ <<c, "close">> \in May /\ fd[c]
  /\ IF \E d \in Client \ {c} : fd[d] THEN Become(c, "unmap", "") ELSE Become(c, "send", "close")
  /\ UNCHANGED <<server, fd, helpers>>

UnmapFd(c) ==
  /\ At(c, "unmap")
  /\ fd' = [fd EXCEPT ![c] = FALSE]
  /\ Become(c, "idle", "")
  /\ UNCHANGED <<server, helpers>>

SendClose(c) ==
  /\ At(c, "send")
  /\ Gets([type |-> "close", whom |-> c])
  /\ Become(c, "wait", "close")
  /\ UNCHANGED <<fd, helpers>>

Fork(c, d) ==
  /\ At(c, "idle") /\ At(d, "unborn") /\ <<c, "fork">> \in May
  /\ Become(d, "idle", "")
  /\ fd' = [fd EXCEPT ![d] = fd[c]]
  /\ UNCHANGED <<server, helpers>>

Die(c) ==
  /\ client[c].at \notin {"unborn", "gone"} /\ <<c, "die">> \in May
  /\ Become(c, "gone", "")
  /\ fd' = [fd EXCEPT ![c] = FALSE]
  /\ UNCHANGED <<server, helpers>>

-----------------------------------------------------------------------------

Server ==
  \/ Yield \/ GetBuffer \/ ProcessTimer \/ AnswerTimer \/ NoPage
  \/ Serve(TRUE)
  \/ \E t \in Buffer :
       \/ Socket(t) \/ Begin(t) \/ SleepForRoom(t) \/ ApiPost(t) \/ ApiWait(t) \/ Drain(t)
       \/ Fetch(t) \/ FetchBroken(t) \/ CopyLen(t) \/ CopyHead(t) \/ CopyTail(t) \/ Deliver(t)
       \/ Finish(t) \/ Reply(t)
  \/ Execute
  \/ \E t \in Buffer \cup {Tcpip} : Output(t)

(* A panic brings up the kernel's monitor, which keeps the kernel's lock.  *)
Next ==
  /\ panic = ""
  /\ \/ Server
     \/ Serve(FALSE) \/ NoArgs
     \/ \E t \in Buffer : NoTimeouts(t)
     \/ \E t \in Buffer \cup {Tcpip} : OutputNoPage(t)
     \/ TimerTick \/ Packet \/ PacketHead \/ PacketTail \/ SendPacket
     \/ Transmitted \/ TransmitFull
     \/ \E c \in Client :
          \/ \E type \in {"socket", "api", "recv", "nopage", "timer"} : Call(c, type)
          \/ Close(c) \/ UnmapFd(c) \/ SendClose(c) \/ Die(c)
          \/ \E d \in Client : Fork(c, d)

Spec == Init /\ [][Next]_vars

(* The server is one environment, which the scheduler always runs again.   *)
(* Nobody has to send anything, and the driver need not take a packet: a   *)
(* ring that is full may stay full (module E1000).                         *)
FairSpec == Spec /\ WF_vars(Server)

-----------------------------------------------------------------------------
(* Properties                                                              *)

Live == {t \in Buffer : pc[t].at # "unused"}
Asleep(t) == k.tc[t].addr # NULL
Held == Live \cup (IF pc[Main].at \in {"recv", "got", "tick"} THEN {pc[Main].va} ELSE {})
Lost == buse \ Held
Socketed == conn # NoConn

(* Every thread is the running one or in the queue, once; a live thread    *)
(* and the main thread each have a buffer that is marked as used.          *)
TypeOK ==
  /\ cur \in Thread /\ queue \in Seq(Thread)
  /\ IsInjective(queue) /\ cur \notin Range(queue)
  /\ {cur} \cup Range(queue) = {Main, Tcpip} \cup Live
  /\ Held \subseteq buse /\ buse \subseteq Buffer
  /\ \A t \in Thread : Asleep(t) => t # Main /\ pc[t].at \in {"loop", "post", "wait", "fetch", "deliver"}

(* ipc_recv stops all threads: when the server waits there, no thread of   *)
(* it could go on (serv.c:264), not even one whose semaphore was given to  *)
(* another mailbox under it.  All calls but recv are answered, and nobody  *)
(* waits for a packet while there is one.                                  *)
NoWorkLeft ==
  pc[Main].at = "recv" =>
    /\ \A i \in DOMAIN queue : ~Awake(queue[i], k)
    /\ \A t \in Live : pc[t].at \in {"fetch", "deliver"}
    /\ Socketed /\ Messages(conn.mbox) # <<>> =>
         \A t \in Live : pc[t].at = "fetch" => Broken(t, NULL)

(* Of the packets whose threads wait for room in the mailbox, the one that *)
(* arrived first is the first to get in, and a new one does not overtake.  *)
Delivering(t) == t \in Live /\ pc[t].at = "deliver"

InOrder ==
  [][\A t \in Buffer : Delivering(t) /\ pc'[t].at = "finish" =>
       \A u \in Buffer : Delivering(u) => pc[t].pkt.n <= pc[u].pkt.n]_vars

(* The input helper writes into the page of a packet on its way.  What the *)
(* server hands on may be a mixture, but of two packets only: the length   *)
(* and each half of the data are of the packet announced or of the one     *)
(* after it, however the two copies interleave.                            *)
OneAhead ==
  \A t \in Buffer : Delivering(t) =>
    pc[t].pkt.of \subseteq pc[t].pkt.n .. pc[t].pkt.n + 1

(* Why the server may stop: its buffers are all lost or held by threads    *)
(* that sleep, for a packet or (where recv_udp of lwIP expects the packet  *)
(* to be dropped) for room in a mailbox; or there is no memory for a       *)
(* thread's arguments or its record, or for a packet to send; or a packet  *)
(* was waiting for room in the mailbox of a socket that was closed; or a   *)
(* client died with a call under way.                                      *)
StopsOnlyIf ==
  CASE panic = "overflow" ->
         \A b \in Buffer : b \in Lost \/ (Asleep(b) /\ pc[b].at \in {"fetch", "deliver"})
    [] panic = "memory"   -> pc[cur].at \in {"got", "out", "reply", "drain"}
    [] panic = "freed"    -> pc[cur].at = "deliver" /\ Asleep(cur)
    [] panic \in {"dead", "fault"} -> client[pc[cur].req.whom].at = "gone"
    [] OTHER -> panic = ""

(* A buffer is lost only with a request that has no page or that gets no   *)
(* thread, and then for ever.                                              *)
LostOnlyBy ==
  [][/\ Lost \subseteq Lost'
     /\ Lost # Lost' =>
          Lost' \ Lost = {va_} /\ pc[Main].at = "got" /\ pc'[va_].at = "unused"]_vars

(* The server always comes back to ipc_recv, unless it panics or waits for *)
(* ever to hand on a packet because the driver has no room for the one     *)
(* before: no thread keeps it otherwise, and no message is needed to bring *)
(* it back.                                                                *)
ListensAgain ==
  \/ []<>(pc[Main].at = "recv" \/ panic # "")
  \/ <>[](pc[cur].at = "out" /\ output = "busy")

(* Threads, buffers and mailboxes are accounted for: none is in two places *)
(* or in none, and no semaphore promises what is not there.                *)
AllCounted == TypeOK /\ CountsMatch
=============================================================================
