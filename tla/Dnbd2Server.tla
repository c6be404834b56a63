---------------------------- MODULE Dnbd2Server -----------------------------
(***************************************************************************)
(* The DNBD2 data server (src/contrib/dnbd2/trunk/server): one process     *)
(* that answers queries for blocks, sizes and alternative servers, reads   *)
(* its configuration again at SIGHUP and ends at SIGTERM.                  *)
(*                                                                         *)
(* File descriptors are those the process may open, limited in number.     *)
(* The payload of a reply has two parts, as a read that ends with the      *)
(* image, or that fails, may fill the first only.  A signal may arrive     *)
(* between any two steps.                                                  *)
(***************************************************************************)
EXTENDS Integers, SequencesExt, FiniteSetsExt

CONSTANTS
    Fds,       \* descriptors the process may use: numbers
    Addrs,     \* addresses to bind to
    Datasets,  \* (vid, rid) pairs
    Files,     \* images
    Size,      \* of each image, in parts of a block
    Configs,   \* contents of the configuration file: address and lines (of
               \* dataset and image); None has no address or no port
    MaxInbox,  \* bound: datagrams the socket holds
    None

ASSUME ConstantsAssumption ==
    /\ Fds \subseteq Nat /\ Fds # {}
    /\ Size \in [Files -> Nat] /\ MaxInbox \in Nat
    /\ Configs \subseteq
          [addr : Addrs, lines : Seq(Datasets \X Files)] \cup {None}
    /\ None \notin Fds \cup Addrs \cup Datasets \cup Files

\* Images, addresses and the configuration file are different things.
ASSUME KindsAssumption ==
    Addrs \cap Files = {} /\ "config" \notin Addrs \cup Files \cup {None}

Blocks == 0 .. Max({Size[f] : f \in Files} \cup {1}) \div 2
Queries == [cmd : {"block"}, ds : Datasets, num : Blocks]
             \cup [cmd : {"size", "servers", "other"}, ds : Datasets, num : {0}]

VARIABLES
    config,                \* the configuration file
    open,                  \* what each descriptor is open on
    tree, serverFd, serverAddr,
    file, lines,           \* the configuration file being read, and what is
                           \* left of it
    tmpTree, tmpAddr,      \* what has been read
    sigExit, sigConfig,
    due,                   \* history: SIGHUP since the file was last read
    inbox,                 \* datagrams at the socket
    request, reply,        \* main's two buffers
    ret,                   \* history: what the last file_read returned; nobody
                           \* looks at it
    pc                     \* place in main and configure

confVars == <<tree, serverFd, serverAddr>>
tmpVars == <<file, lines, tmpTree, tmpAddr>>
sigVars == <<sigExit, sigConfig, due>>
replyVars == <<reply, ret>>
vars == <<config, open, confVars, tmpVars, sigVars, inbox, request, replyVars,
          pc>>

NoTree == [d \in Datasets |-> None]
Free(o) == {fd \in Fds : o[fd] = None}
Lowest(o) == Min(Free(o))

\* main's buffers are not initialised: what is there is no dataset's.
Init ==
    /\ config \in Configs
    /\ open = [fd \in Fds |-> None]
    /\ tree = NoTree /\ serverFd = None /\ serverAddr = None
    /\ file = None /\ lines = <<>> /\ tmpTree = NoTree /\ tmpAddr = None
    /\ sigExit = FALSE /\ sigConfig = FALSE /\ due = FALSE
    /\ inbox = <<>>
    /\ request = None
    /\ reply = [cmd |-> None, ds |-> None, num |-> 0,
                payload |-> [h \in 1 .. 2 |-> None]]
    /\ ret = 0
    /\ pc = "load"

-----------------------------------------------------------------------------
(* configure.                                                              *)

Loading == pc \in {"load", "loading", "bind"}
Fail == pc' = IF Loading THEN "stopped" ELSE "done"

\* parse_config_file opens the file, which takes a descriptor.  It is not closed
\* when address or port cannot be read.  The lines are those of one version of
\* the file: an editor writes another one beside it.
OpenConfig ==
    /\ pc \in {"load", "reload"}
    /\ due' = FALSE
    /\ IF Free(open) = {} THEN Fail /\ UNCHANGED <<open, tmpVars>>
       ELSE /\ open' = [open EXCEPT ![Lowest(open)] = "config"]
            /\ IF config = None THEN Fail /\ UNCHANGED tmpVars
               ELSE /\ file' = Lowest(open) /\ lines' = config.lines
                    /\ tmpAddr' = config.addr /\ UNCHANGED tmpTree
                    /\ pc' = IF Loading THEN "loading" ELSE "reloading"
    /\ UNCHANGED <<config, confVars, sigExit, sigConfig, inbox, request,
                   replyVars>>

\* Mutant: it is not checked whether the image could be opened.
ParseLineUnchecked ==
    /\ pc \in {"loading", "reloading"} /\ lines # <<>>
    /\ lines' = Tail(lines)
    /\ LET fd == IF Free(open) = {} THEN 99 ELSE Lowest(open) IN
       /\ open' = IF fd = 99 THEN open
                  ELSE [open EXCEPT ![fd] = Head(lines)[2]]
       /\ tmpTree' = [tmpTree EXCEPT ![Head(lines)[1]] =
                         IF @ = None THEN fd ELSE @]
    /\ UNCHANGED <<config, confVars, file, tmpAddr, sigVars, inbox, request,
                   replyVars, pc>>

\* A line of the file.  Its dataset file or its image may not be there; a dataset
\* file that cannot be read is left open; and the image is used unless the
\* dataset was in a line above.
ParseLine ==
    /\ pc \in {"loading", "reloading"} /\ lines # <<>>
    /\ lines' = Tail(lines)
    /\ \/ UNCHANGED <<open, tmpTree>>
       \/ /\ Free(open) # {}
          /\ open' = [open EXCEPT ![Lowest(open)] = "config"]
          /\ UNCHANGED tmpTree
       \/ /\ Free(open) # {}
          /\ open' = [open EXCEPT ![Lowest(open)] = Head(lines)[2]]
          /\ tmpTree' = [tmpTree EXCEPT ![Head(lines)[1]] =
                            IF @ = None THEN Lowest(open) ELSE @]
    /\ UNCHANGED <<config, confVars, file, tmpAddr, sigVars, inbox, request,
                   replyVars, pc>>

\* The end of the file, which is closed.  There must have been a dataset.
CloseConfig ==
    /\ pc \in {"loading", "reloading"} /\ lines = <<>>
    /\ open' = [open EXCEPT ![file] = None] /\ file' = None
    /\ IF tmpTree = NoTree THEN Fail /\ tmpAddr' = None
       ELSE pc' = (IF Loading THEN "bind" ELSE "rebind") /\ UNCHANGED tmpAddr
    /\ UNCHANGED <<config, confVars, lines, tmpTree, sigVars, inbox, request,
                   replyVars>>

\* The new tree takes the place of the old one, whose nodes are freed.
Install(fd) ==
    /\ serverFd' = fd /\ serverAddr' = tmpAddr
    /\ tree' = tmpTree
    /\ pc' = IF pc = "bind" THEN "setup" ELSE "done"

\* Mutant: the old socket is always closed.
BindCloses ==
    /\ pc \in {"bind", "rebind"}
    /\ IF pc = "rebind" /\ tmpAddr = serverAddr
       THEN /\ Install(serverFd)
            /\ open' = [open EXCEPT ![serverFd] = None]
            /\ UNCHANGED inbox
       ELSE \/ Fail /\ UNCHANGED <<open, confVars, inbox>>
            \/ /\ Free(open) # {}
               /\ LET fd == Lowest(open) IN
                  /\ Install(fd)
                  /\ open' = [f \in Fds |-> IF f = fd THEN tmpAddr
                                            ELSE IF f = serverFd THEN None
                                            ELSE open[f]]
               /\ inbox' = <<>>
    /\ tmpTree' = NoTree /\ tmpAddr' = None
    /\ UNCHANGED <<config, file, lines, sigVars, request, replyVars>>

\* Mutant: the tree is replaced before the address can be had.
BindLate ==
    /\ pc \in {"bind", "rebind"}
    /\ IF pc = "rebind" /\ tmpAddr = serverAddr
       THEN Install(serverFd) /\ UNCHANGED <<open, inbox>>
       ELSE \/ /\ tree' = tmpTree
               /\ pc' = IF pc = "bind" THEN "stopped" ELSE "done"
               /\ UNCHANGED <<open, inbox, serverFd, serverAddr>>
            \/ /\ Free(open) # {}
               /\ LET fd == Lowest(open) IN
                  /\ Install(fd)
                  /\ open' = [f \in Fds |-> IF f = fd THEN tmpAddr
                                            ELSE IF f = serverFd THEN None
                                            ELSE open[f]]
               /\ inbox' = <<>>
    /\ tmpTree' = NoTree /\ tmpAddr' = None
    /\ UNCHANGED <<config, file, lines, sigVars, request, replyVars>>

\* A socket for another address, before the old one and all that waits there
\* is closed; socket or bind may fail.
Bind ==
    /\ pc \in {"bind", "rebind"}
    /\ IF pc = "rebind" /\ tmpAddr = serverAddr
       THEN Install(serverFd) /\ UNCHANGED <<open, inbox>>
       ELSE \/ Fail /\ UNCHANGED <<open, confVars, inbox>>
            \/ /\ Free(open) # {}
               /\ LET fd == Lowest(open) IN
                  /\ Install(fd)
                  /\ open' = [f \in Fds |-> IF f = fd THEN tmpAddr
                                            ELSE IF f = serverFd THEN None
                                            ELSE open[f]]
               /\ inbox' = <<>>
    /\ tmpTree' = NoTree /\ tmpAddr' = None
    /\ UNCHANGED <<config, file, lines, sigVars, request, replyVars>>

-----------------------------------------------------------------------------
(* main.                                                                   *)

\* The process daemonizes and sets its handlers.
SetUp ==
    /\ pc = "setup"
    /\ pc' = "check"
    /\ UNCHANGED <<config, open, confVars, tmpVars, sigVars, inbox, request,
                   replyVars>>

\* The two flags are looked at.
Check ==
    /\ pc = "check"
    /\ pc' = IF sigExit THEN "stopped"
             ELSE IF sigConfig THEN "reload" ELSE "call"
    /\ UNCHANGED <<config, open, confVars, tmpVars, sigVars, inbox, request,
                   replyVars>>

\* Mutant: both flags are reset.
ReloadedBoth ==
    /\ pc = "done"
    /\ sigConfig' = FALSE /\ sigExit' = FALSE
    /\ pc' = "call"
    /\ UNCHANGED <<config, open, confVars, tmpVars, due, inbox, request,
                   replyVars>>

\* The end of a reload.
Reloaded ==
    /\ pc = "done"
    /\ sigConfig' = FALSE
    /\ pc' = "call"
    /\ UNCHANGED <<config, open, confVars, tmpVars, sigExit, due, inbox,
                   request, replyVars>>

\* recvfrom is called ...
Call ==
    /\ pc = "call"
    /\ pc' = "recv"
    /\ UNCHANGED <<config, open, confVars, tmpVars, sigVars, inbox, request,
                   replyVars>>

\* ... and returns.  Queries of unknown datasets are not answered.
Receive ==
    /\ pc = "recv" /\ inbox # <<>>
    /\ request' = Head(inbox)
    /\ inbox' = Tail(inbox)
    /\ pc' = IF tree[Head(inbox).ds] = None THEN "check" ELSE "handle"
    /\ UNCHANGED <<config, open, confVars, tmpVars, sigVars, replyVars>>

\* Part h of block b of an image.
Part(f, b, h) == <<f, 2 * b + h>>
HasPart(f, b, h) == 2 * b + h <= Size[f]

\* What file_read of that block returns and leaves in the buffer: parts beyond
\* the end of the image are not written, nor are those from which on it fails.
FileRead(f, b, buf) ==
    LET filled(n) == [h \in 1 .. 2 |-> IF h <= n /\ HasPart(f, b, h)
                                       THEN Part(f, b, h) ELSE buf[h]]
    IN [ret : {0}, buf : {filled(2)}]
         \cup [ret : {-1}, buf : {filled(n) : n \in 0 .. 2}]

\* Mutant: the number is not set.
HandleQueryOldNum ==
    /\ pc = "handle"
    /\ LET f == open[tree[request.ds]] IN
       \E read \in FileRead(f, request.num, reply.payload) :
          /\ reply' = [cmd |-> request.cmd, ds |-> request.ds,
                       num |-> reply.num, payload |-> read.buf]
          /\ ret' = read.ret
    /\ pc' = "send"
    /\ UNCHANGED <<config, open, confVars, tmpVars, sigVars, inbox, request>>

\* handle_query.  Whether a block could be read is not looked at.  A list of
\* servers, not empty here, is written over a random block.  An unknown command
\* is answered with what is in the buffer.
HandleQuery ==
    /\ pc = "handle"
    /\ LET f == open[tree[request.ds]]
           answer(num, payload) == [cmd |-> request.cmd, ds |-> request.ds,
                                    num |-> num, payload |-> payload]
       IN \/ /\ request.cmd = "block"
             /\ \E read \in FileRead(f, request.num, reply.payload) :
                   reply' = answer(request.num, read.buf) /\ ret' = read.ret
             /\ pc' = "send"
          \/ /\ request.cmd = "size"
             /\ \/ reply' = answer(Size[f], reply.payload) /\ pc' = "send"
                \/ UNCHANGED reply /\ pc' = "check"  \* file_getsize failed
             /\ UNCHANGED ret
          \/ /\ request.cmd = "servers"
             /\ \E b \in Blocks : \E read \in FileRead(f, b, reply.payload) :
                   /\ b = 0 \/ HasPart(f, b, 1)
                   /\ reply' = answer(0, [read.buf EXCEPT
                                            ![1] = <<request.ds, 0>>])
                   /\ ret' = read.ret
             /\ pc' = "send"
          \/ /\ request.cmd = "other"
             /\ reply' = answer(reply.num, reply.payload) /\ UNCHANGED ret
             /\ pc' = "send"
    /\ UNCHANGED <<config, open, confVars, tmpVars, sigVars, inbox, request>>

Send ==
    /\ pc = "send"
    /\ pc' = "check"
    /\ UNCHANGED <<config, open, confVars, tmpVars, sigVars, inbox, request,
                   replyVars>>

Configure == OpenConfig \/ ParseLine \/ CloseConfig \/ Bind
Main == \/ Configure \/ SetUp \/ Check \/ Reloaded \/ Call \/ Receive
        \/ HandleQuery \/ Send

-----------------------------------------------------------------------------
(* The administrator and the clients.                                      *)

Edit(c) ==
    /\ pc # "stopped" /\ config # c
    /\ config' = c
    /\ UNCHANGED <<open, confVars, tmpVars, sigVars, inbox, request, replyVars,
                   pc>>

Running == ~Loading /\ pc \notin {"setup", "stopped"}

\* The handlers; recvfrom returns if it waits.
Hup ==
    /\ Running
    /\ sigConfig' = TRUE /\ due' = TRUE
    /\ pc' = IF pc = "recv" THEN "check" ELSE pc
    /\ UNCHANGED <<config, open, confVars, tmpVars, sigExit, inbox, request,
                   replyVars>>

Term ==
    /\ Running
    /\ sigExit' = TRUE
    /\ pc' = IF pc = "recv" THEN "check" ELSE pc
    /\ UNCHANGED <<config, open, confVars, tmpVars, sigConfig, due, inbox,
                   request, replyVars>>

Query(q) ==
    /\ Running /\ Len(inbox) < MaxInbox
    /\ inbox' = Append(inbox, q)
    /\ UNCHANGED <<config, open, confVars, tmpVars, sigVars, request, replyVars,
                   pc>>

Clients == \E q \in Queries : Query(q)

Next == Main \/ Hup \/ Term \/ Clients \/ \E c \in Configs : Edit(c)

Spec == Init /\ [][Next]_vars

\* The process runs, and there are always clients that ask: a driver sends a
\* heartbeat every 30 seconds.
FairSpec == Spec /\ WF_vars(Main) /\ WF_vars(Clients)

-----------------------------------------------------------------------------

\* Every variable has its type.
TypeOK ==
    /\ config \in Configs
    /\ open \in [Fds -> Files \cup Addrs \cup {"config", None}]
    /\ {tree, tmpTree} \subseteq [Datasets -> Fds \cup {None}]
    /\ {serverFd, file} \subseteq Fds \cup {None}
    /\ lines \in Seq(Datasets \X Files)
    /\ {serverAddr, tmpAddr} \subseteq Addrs \cup {None}
    /\ {sigExit, sigConfig, due} \subseteq BOOLEAN
    /\ inbox \in Seq(Queries) /\ request \in Queries \cup {None}
    /\ ret \in {0, -1}
    /\ pc \in {"load", "reload", "loading", "reloading", "bind", "rebind",
               "setup", "check", "done", "call", "recv", "handle", "send",
               "stopped"}

\* What is served is one configuration: address and images are of one version
\* of the file, however often a reload failed half way and whatever was edited
\* meanwhile.
OneConfiguration ==
    Running => \E c \in Configs \ {None} :
                  /\ serverAddr = c.addr
                  /\ \A d \in Datasets : tree[d] # None =>
                        <<d, open[tree[d]]>> \in ToSet(c.lines)

\* The socket is open on the address in use, and no dataset shares its
\* descriptor with it or with another dataset.
DescriptorsRight ==
    Running => /\ open[serverFd] = serverAddr
               /\ \A d \in Datasets : tree[d] # None =>
                     /\ open[tree[d]] \in Files
                     /\ \A e \in Datasets : tree[e] = tree[d] => e = d

\* A reply that is sent is the answer to its request, although the buffer still
\* holds the reply before.  Two are not claimed to be: the block of a read that
\* failed, and what is sent for an unknown command.
ReplyRight ==
    pc = "send" =>
        /\ reply.cmd = request.cmd /\ reply.ds = request.ds
        /\ LET f == open[tree[request.ds]] IN
           CASE request.cmd = "block" ->
                  /\ reply.num = request.num
                  /\ ret = 0 =>
                        \A h \in 1 .. 2 : HasPart(f, request.num, h) =>
                           reply.payload[h] = Part(f, request.num, h)
             [] request.cmd = "size" -> reply.num = Size[f]
             [] request.cmd = "servers" -> reply.payload[1] = <<request.ds, 0>>
             [] request.cmd = "other" -> TRUE

\* SIGTERM ends the server, at the latest after the next datagram.
TermEnds == sigExit ~> pc = "stopped"

\* main.c:39-40: the configuration is read "when SIGHUP is caught"; a signal
\* that has not been acted on is remembered.
Remembered == due => sigConfig

\* main.c:39-40: likewise; the server does not wait for a datagram with a
\* reload to do.
Awake == pc = "recv" => ~sigConfig

\* tree.h:34-35: "all resources used by the tree" are freed on a reload.
FdsFreed ==
    pc = "check" => \A fd \in Fds : open[fd] \in Files =>
                       \E d \in Datasets : tree[d] = fd

\* query.h:7-8: a reply is built from the request with the datasets of the
\* tree; a block that begins in the image has no part of another one.
PayloadOwn ==
    pc = "send" /\ request.cmd = "block" =>
        LET f == open[tree[request.ds]] IN
        HasPart(f, request.num, 1) =>
            \A h \in 1 .. 2 :
               reply.payload[h] \in {None, Part(f, request.num, h)}
=============================================================================
