----------------------------- MODULE FileServer -----------------------------
(***************************************************************************)
(* The file server (fs/serv.c) and its clients (lib/file.c, lib/fd.c): one *)
(* request at a time, by message (module Ipc) and with the client's        *)
(* fsipcbuf as the page.  The struct Fd of an open file is a page that     *)
(* server and clients share; the server learns from its reference count    *)
(* whether the file is still open.                                         *)
(***************************************************************************)
EXTENDS FsImage

CONSTANTS
  Booted,         \* BOUND: the sizes of the files in the images that are booted
  Missing,        \* names that are not on the disk
  Client, First,  \* the clients, and the one that is there at the start
  MAXOPEN, MAXFD,
  IdMod,          \* file ids are unsigned integers of this many values
  BufSize,        \* sizeof ret_buf
  Counts,         \* BOUND: the bytes that a client asks for
  May,            \* BOUND: the calls each client makes, pairs <<c, call>>
  Nil

ASSUME ServerAssumption ==
  /\ First \in Client /\ IsFiniteSet(Client)
  /\ MAXOPEN \in Nat \ {0} /\ MAXFD \in Nat \ {0}
  /\ IdMod \in Nat /\ IdMod % MAXOPEN = 0 /\ IdMod > MAXOPEN
  /\ Counts \subseteq Nat \ {0} /\ BufSize \in Nat \ {0}
  /\ "" \notin Missing
  /\ May \subseteq Client \X {"open", "read", "stat", "flush"}

Name == {Argv[i] : i \in DOMAIN Argv} \cup Missing
Entry == 0 .. MAXOPEN - 1
Fd == 0 .. MAXFD - 1
Text == Seq(Name \X Nat) \cup (Name \X Nat)

ASSUME NilAssumption ==
  Nil \notin Nat \cup Name \cup Text \cup [id : Nat, offset : Nat]

VARIABLES
  o_fileid,  \* [Entry -> 0 .. IdMod - 1]
  o_file,    \* [Entry -> struct File or NoFile]
  o_fd,      \* [Entry -> struct Fd, or Nil]: the page; Nil before it is allocated
  fd,        \* [Client -> [Fd -> Entry \cup {Nil}]]: the page mapped there
  srv,       \* where the server is, and with what
  pc         \* [Client -> where the client is, and with what]

table == <<o_fileid, o_file, o_fd>>
vars == <<image, table, fd, srv, pc>>

Idle == [at |-> "idle"]
Gone == [at |-> "gone"]
Unborn == [at |-> "unborn"]
Recv == [at |-> "recv"]

E_INVAL == 3
E_NO_MEM == 4
E_MAX_OPEN == 10
E_NOT_FOUND == 11

(* serve_init                                                              *)
Init ==
  /\ ImageInit
  /\ o_fileid = [i \in Entry |-> i]
  /\ o_file = [i \in Entry |-> NoFile]
  /\ o_fd = [i \in Entry |-> Nil]
  /\ fd = [c \in Client |-> [d \in Fd |-> Nil]]
  /\ srv = Recv
  /\ pc = [c \in Client |-> IF c = First THEN Idle ELSE Unborn]

Format ==
  /\ \/ \E len \in Sizes : writefile(len)
     \/ finishdir
  /\ UNCHANGED <<table, fd, srv, pc>>

-----------------------------------------------------------------------------
(* Clients                                                                 *)

Up == ~Formatting /\ \A i \in DOMAIN ents : ents[i].size = Booted[i]
At(c, where) == Up /\ pc[c].at = where
Goto(c, p) == pc' = [pc EXCEPT ![c] = p]

(* open, devfile_read, devfile_stat, and devfile_flush as the first half of*)
(* close: the arguments go to fsipcbuf, the id comes from the struct Fd.   *)
Call(c, req) ==
  /\ At(c, "idle") /\ <<c, req.type>> \in May
  /\ Goto(c, [at |-> "send", req |-> req])
  /\ UNCHANGED <<image, table, fd, srv>>

(* fd_alloc: the first number that is not in use; fd_lookup.               *)
Open(c, name) ==
  \E d \in Fd :
    /\ fd[c][d] = Nil /\ \A i \in 0 .. d - 1 : fd[c][i] # Nil
    /\ Call(c, [type |-> "open", fd |-> d, name |-> name])

FileCall(c, d, type, n) ==
  /\ fd[c][d] # Nil
  /\ Call(c, [type |-> type, fd |-> d, fileid |-> o_fd[fd[c][d]].id, n |-> n])

(* ipc_recv of fsipc                                                       *)
Wait(c) ==
  /\ At(c, "sent")
  /\ Goto(c, [pc[c] EXCEPT !.at = "wait"])
  /\ UNCHANGED <<image, table, fd, srv>>

(* fsipc has returned; close goes on to unmap the struct Fd.               *)
Return(c) ==
  /\ At(c, "done")
  /\ Goto(c, Idle)
  /\ fd' = IF pc[c].req.type = "flush" THEN [fd EXCEPT ![c][pc[c].req.fd] = Nil] ELSE fd
  /\ UNCHANGED <<image, table, srv>>

(* fork maps the struct Fd of every descriptor once more; dup does so for  *)
(* one, and is left out.  (In the middle of a fork the parent has them     *)
(* mapped too: one step will do.)                                          *)
Fork(c, child) ==
  /\ At(c, "idle") /\ pc[child] = Unborn
  /\ fd' = [fd EXCEPT ![child] = fd[c]]
  /\ Goto(child, Idle)
  /\ UNCHANGED <<image, table, srv>>

(* A client exits, or is destroyed wherever it is.                         *)
Die(c) ==
  /\ Up
  /\ pc[c] \notin {Unborn, Gone}
  /\ Goto(c, Gone)
  /\ fd' = [fd EXCEPT ![c] = [d \in Fd |-> Nil]]
  /\ UNCHANGED <<image, table, srv>>

-----------------------------------------------------------------------------
(* The server.  A request is taken, the client's ipc_send returns, and the *)
(* request is worked off, in one step: the client has no part in it before *)
(* the answer, and the others only count in pageref.                       *)

pageref(i) ==
  (IF o_fd[i] = Nil THEN 0 ELSE 1)
  + Cardinality({x \in Client \X Fd : fd[x[1]][x[2]] = i})

Requests(c, type) == srv = Recv /\ At(c, "send") /\ pc[c].req.type = type

(* bytes: what the server has put into fsipcbuf; pg: the page that goes out*)
Answer(c, r, bytes, pg) ==
  /\ srv' = [at |-> "reply", whom |-> c, r |-> r, bytes |-> bytes, pg |-> pg]
  /\ Goto(c, [pc[c] EXCEPT !.at = "sent"])

(* Variant: the entry of a file that one client has open is taken.         *)
Available_OneTooMany == {i \in Entry : pageref(i) <= 2}

(* openfile_alloc takes the first entry that only the server refers to.    *)
Available == {i \in Entry : pageref(i) <= 1}

(* Variant: the ids count up without regard to the entry.                  *)
NextId_Plus1(i) == (o_fileid[i] + 1) % IdMod

(* The id of an entry, modulo MAXOPEN, is its index.                       *)
NextId(i) == (o_fileid[i] + MAXOPEN) % IdMod

(* openfile_alloc returns the id as an int.                                *)
AsInt(id) == IF 2 * id < IdMod THEN id ELSE id - IdMod

(* The entry gets a new id and its page is cleared before anything else is *)
(* checked.  An id that is negative as an int is taken for an error, so    *)
(* that the entry cannot be opened from there until its ids wrap.  A mode  *)
(* other than 0, like a name that is not there, is an error too.           *)
ServeOpen(c) ==
  /\ Requests(c, "open")
  /\ Available # {}
  /\ LET i == Min(Available)
         id == NextId(i)
         f == IF AsInt(id) < 0 THEN NoFile ELSE dir_lookup(root, pc[c].req.name)
         error == IF AsInt(id) < 0 THEN AsInt(id) ELSE -E_NOT_FOUND IN
       /\ o_fileid' = [o_fileid EXCEPT ![i] = id]
       /\ o_fd' = [o_fd EXCEPT ![i] = [id |-> IF f = NoFile THEN 0 ELSE id, offset |-> 0]]
       /\ o_file' = IF f = NoFile THEN o_file ELSE [o_file EXCEPT ![i] = f]
       /\ IF f = NoFile THEN Answer(c, error, <<>>, Nil) ELSE Answer(c, 0, <<>>, i)
  /\ UNCHANGED <<image, fd>>

ServeOpenFails(c) ==
  /\ Requests(c, "open")
  /\ \/ Available = {} /\ Answer(c, -E_MAX_OPEN, <<>>, Nil)
     \/ /\ Available # {} /\ o_fd[Min(Available)] = Nil
        /\ Answer(c, -E_NO_MEM, <<>>, Nil)
  /\ UNCHANGED <<image, table, fd>>

(* Variant: the server does not count its own reference.                   *)
openfile_lookup_OneMore(fileid) ==
  LET i == fileid % MAXOPEN IN
  IF pageref(i) <= 2 \/ o_fileid[i] # fileid THEN Nil ELSE i

openfile_lookup(fileid) ==
  LET i == fileid % MAXOPEN IN
  IF pageref(i) = 1 \/ o_fileid[i] # fileid THEN Nil ELSE i

(* Variant: the position stays.                                            *)
ServeRead_NoSeek(c) ==
  /\ Requests(c, "read")
  /\ LET i == openfile_lookup(pc[c].req.fileid) IN
       IF i = Nil THEN Answer(c, -E_INVAL, <<>>, Nil) /\ UNCHANGED o_fd
       ELSE LET bytes == file_read(o_file[i], Least(pc[c].req.n, BufSize), o_fd[i].offset) IN
              /\ Answer(c, Len(bytes), bytes, Nil)
              /\ UNCHANGED o_fd
  /\ UNCHANGED <<image, o_fileid, o_file, fd>>

ServeRead(c) ==
  /\ Requests(c, "read")
  /\ LET i == openfile_lookup(pc[c].req.fileid) IN
       IF i = Nil THEN Answer(c, -E_INVAL, <<>>, Nil) /\ UNCHANGED o_fd
       ELSE LET bytes == file_read(o_file[i], Least(pc[c].req.n, BufSize), o_fd[i].offset) IN
              /\ Answer(c, Len(bytes), bytes, Nil)
              /\ o_fd' = [o_fd EXCEPT ![i].offset = @ + Len(bytes)]
  /\ UNCHANGED <<image, o_fileid, o_file, fd>>

ServeStat(c) ==
  /\ Requests(c, "stat")
  /\ LET i == openfile_lookup(pc[c].req.fileid) IN
       IF i = Nil THEN Answer(c, -E_INVAL, <<>>, Nil)
       ELSE Answer(c, 0, <<o_file[i].name, o_file[i].size>>, Nil)
  /\ UNCHANGED <<image, table, fd>>

(* Variant: a request that needs no work needs no answer.                  *)
ServeFlush_NoAnswer(c) ==
  /\ Requests(c, "flush")
  /\ Goto(c, [pc[c] EXCEPT !.at = "sent"])
  /\ UNCHANGED <<image, table, fd, srv>>

ServeFlush(c) ==
  /\ Requests(c, "flush")
  /\ Answer(c, 0, <<>>, Nil)
  /\ UNCHANGED <<image, table, fd>>

Replies == srv.at = "reply" /\ pc[srv.whom].at = "wait"
Woken == [at |-> "done", req |-> pc[srv.whom].req, r |-> srv.r, bytes |-> srv.bytes]

(* Variant: the page of an open is forgotten.                              *)
Reply_NoPage ==
  /\ Replies
  /\ Goto(srv.whom, Woken)
  /\ srv' = Recv
  /\ UNCHANGED <<image, table, fd>>

(* ipc_send: the client gets the result, and the struct Fd if it opened.   *)
(* The server unmaps fsreq, which nobody looks at, and receives again.     *)
Reply ==
  /\ Replies
  /\ Goto(srv.whom, Woken)
  /\ fd' = IF srv.pg # Nil THEN [fd EXCEPT ![srv.whom][pc[srv.whom].req.fd] = srv.pg] ELSE fd
  /\ srv' = Recv
  /\ UNCHANGED <<image, table>>

(* There is no memory for the page table that the struct Fd needs: the     *)
(* client gets its result without the page (Torn of module Rendezvous) and *)
(* the server panics.                                                      *)
ReplyNoMem ==
  /\ Replies /\ srv.pg # Nil
  /\ \A d \in Fd : fd[srv.whom][d] = Nil
  /\ Goto(srv.whom, Woken)
  /\ srv' = [at |-> "panic"]
  /\ UNCHANGED <<image, table, fd>>

(* The client has died: ipc_send panics.                                   *)
ReplyToDead ==
  /\ srv.at = "reply" /\ pc[srv.whom] = Gone
  /\ srv' = [at |-> "panic"]
  /\ UNCHANGED <<image, table, fd, pc>>

-----------------------------------------------------------------------------

Server ==
  \/ \E c \in Client :
       \/ ServeOpen(c)
       \/ ServeOpenFails(c)
       \/ ServeRead(c)
       \/ ServeStat(c)
       \/ ServeFlush(c)
  \/ Reply
  \/ ReplyNoMem
  \/ ReplyToDead

Next ==
  \/ Format
  \/ Server
  \/ \E c \in Client :
       \/ \E n \in Name : Open(c, n)
       \/ \E d \in Fd, n \in Counts : FileCall(c, d, "read", n)
       \/ \E d \in Fd, type \in {"stat", "flush"} : FileCall(c, d, type, 0)
       \/ Wait(c)
       \/ Return(c)
       \/ \E child \in Client : Fork(c, child)
       \/ Die(c)

Spec == Init /\ [][Next]_vars

(* Server and clients get their turns (NoStarvation of module Kernel; that *)
(* nobody below them forks and exits for ever is assumed).                 *)
FairSpec == Spec /\ WF_vars(Server) /\ \A c \in Client : WF_vars(Wait(c))

-----------------------------------------------------------------------------
(* Properties.                                                             *)

Request_ ==
  [type : {"open"}, fd : Fd, name : Name]
  \cup [type : {"read", "stat", "flush"}, fd : Fd, fileid : 0 .. IdMod - 1, n : Counts \cup {0}]

TypeOK ==
  /\ o_fileid \in [Entry -> 0 .. IdMod - 1]
  /\ o_fd \in [Entry -> [id : 0 .. IdMod - 1, offset : 0 .. MAXFILESIZE] \cup {Nil}]
  /\ \A i \in Entry : o_fileid[i] % MAXOPEN = i
  /\ fd \in [Client -> [Fd -> Entry \cup {Nil}]]
  /\ srv.at \in {"recv", "reply", "panic"}
  /\ \A c \in Client : "req" \in DOMAIN pc[c] => pc[c].req \in Request_

(* Server and clients together implement OpenFiles.                        *)
Held(i) == \E c \in Client, d \in Fd : fd[c][d] = i
Pending(c) ==
  IF srv.at = "reply" /\ srv.whom = c /\ pc[c].at \in {"sent", "wait"} /\ pc[c].req.type = "read" /\ srv.r >= 0
    THEN srv.bytes
  ELSE IF pc[c].at = "done" /\ pc[c].req.type = "read" /\ pc[c].r >= 0 THEN pc[c].bytes
  ELSE Nil

(* The server is lost once a client has died under its request.            *)
Over == srv.at = "panic" \/ (srv.at = "reply" /\ pc[srv.whom] = Gone)
Shown(i) == Held(i) /\ ~Over

F == INSTANCE OpenFiles WITH
       Handle <- Entry, Longest <- MAXFILESIZE, None <- Nil,
       tree <- [n \in Name |->
         IF \E i \in DOMAIN ents : ents[i].name = n
           THEN ents[CHOOSE i \in DOMAIN ents : ents[i].name = n].size ELSE Nil],
       fd <- [c \in Client |-> [d \in Fd |-> IF Over THEN Nil ELSE fd[c][d]]],
       file <- [i \in Entry |-> IF Shown(i) THEN o_file[i].name ELSE Nil],
       pos <- [i \in Entry |-> IF Shown(i) THEN o_fd[i].offset ELSE 0],
       result <- [c \in Client |-> IF Over THEN Nil ELSE Pending(c)],
       over <- Over

(* An open file is never given away while a descriptor refers to it, and   *)
(* all who share it read its bytes in order and once, for every length and *)
(* every way fsformat has laid the file out, through reuse of the entries, *)
(* file ids that wrap (after opens that fail), forks and deaths.           *)
ImplementsOpenFiles == F!Spec

(* A client that holds a descriptor is never told that it is invalid: the  *)
(* id in its struct Fd, read before the request was sent, is still good    *)
(* when the server looks it up.                                            *)
NeverStale ==
  \A c \in Client : pc[c].at = "done" /\ pc[c].req.type # "open" => pc[c].r >= 0

(* open succeeds only with the struct Fd in place, but in the message that *)
(* brings the server down.                                                 *)
OpenMeansMapped ==
  \A c \in Client :
    pc[c].at = "done" /\ pc[c].req.type = "open" /\ pc[c].r >= 0 =>
      fd[c][pc[c].req.fd] # Nil \/ srv.at = "panic"

(* Table, descriptors and answers agree: file ids name their entry, a held *)
(* descriptor is good, and open has delivered what it says.                *)
DescriptorsGood == TypeOK /\ NeverStale /\ OpenMeansMapped

(* Whoever waits for an answer gets it, unless a client died while the     *)
(* server worked for it, or memory ran out under the answer: then the      *)
(* server stops for good.                                                  *)
Answered ==
  \A c \in Client : pc[c].at = "wait" ~> pc[c].at # "wait" \/ srv.at = "panic"
=============================================================================
