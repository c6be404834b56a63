-------------------------- MODULE Dnbd2Server_proofs ------------------------
(***************************************************************************)
(* Proofs about Dnbd2Server, for any descriptors, data sets, images and    *)
(* contents of the configuration file.                                     *)
(***************************************************************************)
EXTENDS Dnbd2Server, SequenceTheorems, WellFoundedInduction, TLAPS

Reading == pc \in {"loading", "reloading"}
Replacing == pc \in {"loading", "reloading", "bind", "rebind"}
Serving == pc \notin {"load", "loading", "bind", "stopped"}

\* Tree t holds images that configuration c names, by their descriptors in o.
Holds(o, t, c) == \A d \in Datasets : t[d] # None =>
                     t[d] \in Fds /\ <<d, o[t[d]]>> \in ToSet(c.lines)

Distinct(t) == \A d, e \in Datasets : t[d] # None /\ t[e] = t[d] => e = d

\* What is served: a socket, and images of the configuration it is from.
ServeInv ==
    Serving =>
        /\ serverFd \in Fds /\ serverAddr \in Addrs
        /\ open[serverFd] = serverAddr
        /\ Distinct(tree)
        /\ \E c \in Configs \ {None} : /\ serverAddr = c.addr
                                       /\ Holds(open, tree, c)

\* What is to be served: what has been read of another configuration.
ReadInv ==
    Replacing =>
        /\ Distinct(tmpTree)
        /\ \E c \in Configs \ {None} :
              /\ tmpAddr = c.addr
              /\ Holds(open, tmpTree, c)
              /\ Reading => ToSet(lines) \subseteq ToSet(c.lines)

\* The descriptor that is closed at the end of the file is the file's.
FileInv == Reading => file \in Fds /\ open[file] = "config"

\* There is nothing in the new tree when a file is opened, and no socket before
\* the first one is.
BlankInv == /\ ~Replacing => tmpTree = NoTree
            /\ Loading => serverFd = None

\* A query that is being answered is of a data set in the tree.
AskInv == pc \in {"handle", "send"} =>
             request \in Queries /\ tree[request.ds] # None

IInv == TypeOK /\ ServeInv /\ ReadInv /\ FileInv /\ BlankInv /\ AskInv
          /\ ReplyRight

-----------------------------------------------------------------------------
(* Descriptors and lines.                                                  *)

\* The kernel gives a descriptor that is free.
LEMMA LowestIsFree ==
    ASSUME NEW o, Free(o) # {}
    PROVE  Lowest(o) \in Fds /\ o[Lowest(o)] = None
<1> DEFINE Less == {ss \in Nat \X Nat : ss[1] < ss[2]}
<1>1. Free(o) \subseteq Nat
  BY ConstantsAssumption DEF Free
<1>2. IsWellFoundedOn(Less, Nat)
  BY NatLessThanWellFounded, Zenon DEF OpToRel
<1>3. PICK x \in Free(o) : \A y \in Free(o) : ~(<<y, x>> \in Less)
  <2> HIDE DEF Less
  <2> QED
    BY <1>1, <1>2, WFMin
<1>4. ASSUME NEW y \in Free(o) PROVE x <= y
  <2>1. x \in Nat /\ y \in Nat /\ <<y, x>> \notin Less
    BY <1>1, <1>3
  <2> QED
    BY <2>1
<1>5. Lowest(o) \in Free(o)
  BY <1>4 DEF Lowest, Min
<1> QED
  BY <1>5 DEF Free

LEMMA ConfigType ==
    ASSUME NEW c \in Configs, c # None
    PROVE  c.addr \in Addrs /\ c.lines \in Seq(Datasets \X Files)
  BY ConstantsAssumption

\* Nothing but images is named in a configuration.
LEMMA NamedImages ==
    ASSUME NEW c \in Configs, c # None, NEW d, NEW f,
           <<d, f>> \in ToSet(c.lines)
    PROVE  f \in Files
<1>1. c.lines \in Seq(Datasets \X Files)
  BY ConfigType
<1>2. PICK i \in DOMAIN c.lines : c.lines[i] = <<d, f>>
  BY DEF ToSet
<1>3. c.lines[i] \in Datasets \X Files
  BY <1>1, <1>2, ElementOfSeq
<1> QED
  BY <1>2, <1>3

\* Whatever happens to descriptors that are not open on an image leaves what a
\* tree holds as it is.
LEMMA HoldsStill ==
    ASSUME NEW c \in Configs, c # None, NEW o, NEW p, NEW t, Holds(o, t, c),
           \A fd \in Fds : o[fd] \in Files => p[fd] = o[fd]
    PROVE  Holds(p, t, c)
  BY NamedImages DEF Holds

LEMMA KindsDiffer ==
    /\ None \notin Fds \cup Addrs \cup Files
    /\ Addrs \cap Files = {}
    /\ "config" \notin Addrs \cup Files \cup {None}
  BY ConstantsAssumption, KindsAssumption

-----------------------------------------------------------------------------
(* Each step preserves the invariant.                                      *)

LEMMA InitInv == Init => IInv
<1> SUFFICES ASSUME Init PROVE IInv
  OBVIOUS
<1>1. TypeOK
  <2>1. NoTree \in [Datasets -> Fds \cup {None}]
    BY DEF NoTree
  <2>2. <<>> \in Seq(Datasets \X Files) /\ <<>> \in Seq(Queries)
    OBVIOUS
  <2> QED
    BY <2>1, <2>2 DEF Init, TypeOK
<1>2. ServeInv /\ ReadInv /\ FileInv /\ AskInv /\ ReplyRight
  BY DEF Init, ServeInv, ReadInv, FileInv, AskInv, ReplyRight, Serving,
         Replacing, Reading
<1>3. BlankInv
  BY DEF Init, BlankInv
<1> QED
  BY <1>1, <1>2, <1>3 DEF IInv

\* A step that leaves configure's data alone.
LEMMA FrameStep ==
    ASSUME IInv, UNCHANGED <<open, confVars, tmpVars>>,
           Serving' => Serving, Loading' => Loading,
           Replacing \/ Replacing' => pc' = pc
    PROVE  ServeInv' /\ ReadInv' /\ FileInv' /\ BlankInv'
<1>1. ServeInv'
  BY DEF IInv, ServeInv, confVars
<1>2. ReadInv' /\ FileInv'
  BY DEF IInv, ReadInv, FileInv, tmpVars, Replacing, Reading
<1>3. BlankInv'
  BY DEF IInv, BlankInv, confVars, tmpVars, Replacing
<1> QED
  BY <1>1, <1>2, <1>3

\* What is served stays as it is while other descriptors are opened and closed.
LEMMA ServeStill ==
    ASSUME IInv, Serving' => Serving, UNCHANGED confVars,
           \A fd \in Fds : open[fd] \in Files \cup Addrs => open'[fd] = open[fd]
    PROVE  ServeInv'
<1> SUFFICES ASSUME Serving PROVE ServeInv'
  BY DEF ServeInv
<1>1. PICK c \in Configs \ {None} : serverAddr = c.addr /\ Holds(open, tree, c)
  BY DEF IInv, ServeInv
<1>2. Holds(open', tree, c)
  BY <1>1, HoldsStill
<1>3. /\ serverFd \in Fds /\ serverAddr \in Addrs /\ Distinct(tree)
      /\ open[serverFd] = serverAddr
  BY DEF IInv, ServeInv
<1> QED
  BY <1>1, <1>2, <1>3 DEF ServeInv, confVars

LEMMA OpenConfigStep == ASSUME IInv, OpenConfig PROVE IInv'
<1> DEFINE fd == Lowest(open)
<1> USE KindsDiffer
<1>1. /\ pc \in {"load", "reload"} /\ tmpTree = NoTree /\ due' = FALSE
      /\ UNCHANGED <<config, confVars, sigExit, sigConfig, inbox, request,
                     replyVars>>
  BY DEF OpenConfig, IInv, BlankInv, Replacing
<1>2. CASE Free(open) = {}
  <2>1. /\ UNCHANGED <<open, tmpVars>>
        /\ pc' = IF pc = "load" THEN "stopped" ELSE "done"
    BY <1>1, <1>2 DEF OpenConfig, Fail, Loading
  <2>2. TypeOK'
    BY <1>1, <2>1 DEF IInv, TypeOK, confVars, tmpVars, replyVars
  <2>3. ServeInv' /\ ReadInv' /\ FileInv' /\ BlankInv'
    BY <1>1, <2>1, FrameStep DEF Serving, Loading, Replacing
  <2> QED
    BY <2>1, <2>2, <2>3 DEF IInv, AskInv, ReplyRight
<1>3. CASE Free(open) # {}
  <2>1. fd \in Fds /\ open[fd] = None /\ open' = [open EXCEPT ![fd] = "config"]
    BY <1>3, LowestIsFree DEF OpenConfig
  <2>2. open' \in [Fds -> Files \cup Addrs \cup {"config", None}]
    BY <2>1 DEF IInv, TypeOK
  <2>3. open'[fd] = "config" /\ \A g \in Fds : g # fd => open'[g] = open[g]
    BY <2>1 DEF IInv, TypeOK
  <2> HIDE DEF fd
  <2>4. (Serving' => Serving) => ServeInv'
    BY <1>1, <2>1, <2>3, ServeStill
  <2>5. CASE config = None
    <3>1. UNCHANGED tmpVars /\ pc' = IF pc = "load" THEN "stopped" ELSE "done"
      BY <1>1, <1>3, <2>5 DEF OpenConfig, Fail, Loading
    <3>2. TypeOK'
      BY <1>1, <2>2, <3>1 DEF IInv, TypeOK, confVars, tmpVars, replyVars
    <3>3. ServeInv'
      BY <1>1, <2>4, <3>1 DEF Serving
    <3>4. ReadInv' /\ FileInv' /\ BlankInv' /\ AskInv' /\ ReplyRight'
      BY <1>1, <3>1 DEF ReadInv, FileInv, BlankInv, AskInv, ReplyRight,
                        Replacing, Reading, Loading, tmpVars
    <3> QED
      BY <3>2, <3>3, <3>4 DEF IInv
  <2>6. CASE config # None
    <3>1. /\ file' = fd /\ lines' = config.lines /\ tmpAddr' = config.addr
          /\ tmpTree' = tmpTree
          /\ pc' = IF pc = "load" THEN "loading" ELSE "reloading"
      BY <1>1, <1>3, <2>6 DEF OpenConfig, Loading, fd
    <3>2. config \in Configs /\ config.addr \in Addrs
            /\ config.lines \in Seq(Datasets \X Files)
      BY <2>6, ConfigType DEF IInv, TypeOK
    <3>3. TypeOK'
      BY <1>1, <2>1, <2>2, <3>1, <3>2 DEF IInv, TypeOK, confVars, replyVars
    <3>4. ServeInv'
      BY <1>1, <2>4, <3>1 DEF Serving
    <3>5. ReadInv'
      BY <1>1, <2>6, <3>1, <3>2 DEF ReadInv, Distinct, Holds, NoTree
    <3>6. FileInv' /\ BlankInv' /\ AskInv' /\ ReplyRight'
      BY <1>1, <2>1, <2>3, <3>1
         DEF IInv, FileInv, BlankInv, AskInv, ReplyRight, Replacing, Reading,
             Loading, confVars
    <3> QED
      BY <3>3, <3>4, <3>5, <3>6 DEF IInv
  <2> QED
    BY <2>5, <2>6
<1> QED
  BY <1>2, <1>3

LEMMA ParseLineStep == ASSUME IInv, ParseLine PROVE IInv'
<1> DEFINE fd == Lowest(open)
           ds == Head(lines)[1]
           image == Head(lines)[2]
<1> USE KindsDiffer
<1>1. /\ Reading /\ lines # <<>> /\ lines' = Tail(lines)
      /\ UNCHANGED <<config, confVars, file, tmpAddr, sigVars, inbox, request,
                     replyVars, pc>>
  BY DEF ParseLine, Reading
<1>2. Reading' /\ Replacing /\ Replacing' /\ (Serving' => Serving)
        /\ (Loading' => Loading)
  BY <1>1 DEF Reading, Replacing, Serving, Loading
<1>3. /\ lines \in Seq(Datasets \X Files) /\ lines' \in Seq(Datasets \X Files)
      /\ Head(lines) \in Datasets \X Files
      /\ Head(lines) \in ToSet(lines) /\ ToSet(lines') \subseteq ToSet(lines)
  <2>1. lines \in Seq(Datasets \X Files)
    BY DEF IInv, TypeOK
  <2>2. /\ Head(lines) = lines[1] /\ 1 \in DOMAIN lines
        /\ \A i \in DOMAIN lines' : /\ i + 1 \in DOMAIN lines
                                    /\ lines'[i] = lines[i + 1]
    BY <1>1, <2>1
  <2> QED
    BY <1>1, <2>1, <2>2 DEF ToSet
<1>4. ds \in Datasets /\ image \in Files /\ <<ds, image>> = Head(lines)
  BY <1>3
<1>5. PICK c \in Configs \ {None} : /\ tmpAddr = c.addr
                                    /\ Holds(open, tmpTree, c)
                                    /\ ToSet(lines) \subseteq ToSet(c.lines)
  BY <1>1, <1>2 DEF IInv, ReadInv
<1>6. Distinct(tmpTree) /\ file \in Fds /\ open[file] = "config"
  BY <1>1, <1>2 DEF IInv, ReadInv, FileInv
<1>7. TypeOK /\ tmpTree \in [Datasets -> Fds \cup {None}]
  BY DEF IInv, TypeOK
<1>8. BlankInv' /\ AskInv' /\ ReplyRight'
  BY <1>1, <1>2 DEF IInv, BlankInv, AskInv, ReplyRight, Reading, confVars
<1>9. CASE UNCHANGED <<open, tmpTree>>
  <2>1. TypeOK'
    BY <1>1, <1>3, <1>7, <1>9 DEF TypeOK, confVars, sigVars, replyVars
  <2>2. ServeInv'
    BY <1>1, <1>2, <1>9, ServeStill
  <2>3. ReadInv' /\ FileInv'
    BY <1>1, <1>3, <1>5, <1>6, <1>9 DEF ReadInv, FileInv
  <2> QED
    BY <1>8, <2>1, <2>2, <2>3 DEF IInv
<1>10. ASSUME Free(open) # {}, NEW what \in Files \cup {"config"},
              open' = [open EXCEPT ![fd] = what]
       PROVE  /\ fd \in Fds /\ open[fd] = None /\ open'[fd] = what
              /\ open' \in [Fds -> Files \cup Addrs \cup {"config", None}]
              /\ \A g \in Fds : g # fd => open'[g] = open[g]
              /\ ServeInv' /\ FileInv' /\ Holds(open', tmpTree, c)
  <2>1. fd \in Fds /\ open[fd] = None
    BY <1>10, LowestIsFree
  <2> HIDE DEF fd
  <2>2. /\ open' \in [Fds -> Files \cup Addrs \cup {"config", None}]
        /\ open'[fd] = what /\ \A g \in Fds : g # fd => open'[g] = open[g]
    BY <1>7, <1>10, <2>1 DEF TypeOK
  <2>3. ServeInv'
    BY <1>1, <1>2, <2>1, <2>2, ServeStill
  <2>4. FileInv'
    BY <1>1, <1>6, <2>1, <2>2 DEF FileInv
  <2>5. Holds(open', tmpTree, c)
    BY <1>5, <2>1, <2>2, HoldsStill
  <2> QED
    BY <2>1, <2>2, <2>3, <2>4, <2>5
<1>11. CASE /\ Free(open) # {} /\ open' = [open EXCEPT ![fd] = "config"]
            /\ UNCHANGED tmpTree
  <2> HIDE DEF fd
  <2>1. ServeInv' /\ FileInv' /\ Holds(open', tmpTree, c)
          /\ open' \in [Fds -> Files \cup Addrs \cup {"config", None}]
    BY <1>10, <1>11
  <2>2. TypeOK'
    BY <1>1, <1>3, <1>7, <1>11, <2>1 DEF TypeOK, confVars, sigVars, replyVars
  <2>3. ReadInv'
    BY <1>1, <1>3, <1>5, <1>6, <1>11, <2>1 DEF ReadInv
  <2> QED
    BY <1>8, <2>1, <2>2, <2>3 DEF IInv
<1>12. CASE /\ Free(open) # {} /\ open' = [open EXCEPT ![fd] = image]
            /\ tmpTree' = [tmpTree EXCEPT ![ds] = IF @ = None THEN fd ELSE @]
  <2> HIDE DEF fd, ds, image
  <2>1. /\ fd \in Fds /\ open[fd] = None /\ open'[fd] = image
        /\ \A g \in Fds : g # fd => open'[g] = open[g]
        /\ ServeInv' /\ FileInv' /\ Holds(open', tmpTree, c)
        /\ open' \in [Fds -> Files \cup Addrs \cup {"config", None}]
    BY <1>4, <1>10, <1>12
  <2>2. /\ tmpTree' \in [Datasets -> Fds \cup {None}]
        /\ tmpTree'[ds] = IF tmpTree[ds] = None THEN fd ELSE tmpTree[ds]
        /\ \A d \in Datasets : d # ds => tmpTree'[d] = tmpTree[d]
    BY <1>4, <1>7, <1>12, <2>1
  <2>3. TypeOK'
    BY <1>1, <1>3, <1>7, <2>1, <2>2 DEF TypeOK, confVars, sigVars, replyVars
  <2>4. \A d \in Datasets : tmpTree[d] # fd
    <3>1. \A d \in Datasets : tmpTree[d] # None => open[tmpTree[d]] \in Files
      BY <1>5, NamedImages DEF Holds
    <3> QED
      BY <2>1, <3>1
  <2>5. Distinct(tmpTree')
    BY <1>4, <1>6, <2>1, <2>2, <2>4 DEF Distinct
  <2>6. Holds(open', tmpTree', c)
    <3> SUFFICES ASSUME NEW d \in Datasets, tmpTree'[d] # None
                 PROVE  /\ tmpTree'[d] \in Fds
                        /\ <<d, open'[tmpTree'[d]]>> \in ToSet(c.lines)
      BY DEF Holds
    <3>1. CASE d = ds /\ tmpTree[ds] = None
      BY <1>3, <1>4, <1>5, <2>1, <2>2, <3>1
    <3>2. CASE ~(d = ds /\ tmpTree[ds] = None)
      <4>1. tmpTree'[d] = tmpTree[d]
        BY <2>2, <3>2
      <4> QED
        BY <2>1, <4>1 DEF Holds
    <3> QED
      BY <3>1, <3>2
  <2>7. ReadInv'
    BY <1>1, <1>3, <1>5, <2>5, <2>6 DEF ReadInv
  <2> QED
    BY <1>8, <2>1, <2>3, <2>7 DEF IInv
<1> QED
  BY <1>9, <1>11, <1>12 DEF ParseLine

LEMMA CloseConfigStep == ASSUME IInv, CloseConfig PROVE IInv'
<1> USE KindsDiffer
<1>1. /\ Reading /\ open' = [open EXCEPT ![file] = None] /\ file' = None
      /\ UNCHANGED <<config, confVars, lines, tmpTree, sigVars, inbox, request,
                     replyVars>>
  BY DEF CloseConfig, Reading
<1>2. /\ pc' \in {"stopped", "done", "bind", "rebind"}
      /\ Serving' => Serving
      /\ Replacing' => tmpTree # NoTree /\ tmpAddr' = tmpAddr
      /\ ~Replacing' => tmpTree = NoTree /\ tmpAddr' = None
      /\ Loading' => Loading
  BY DEF CloseConfig, Fail, Serving, Replacing, Loading
<1>3. file \in Fds /\ open[file] = "config"
  BY <1>1 DEF IInv, FileInv
<1>4. /\ open' \in [Fds -> Files \cup Addrs \cup {"config", None}]
      /\ \A fd \in Fds : open[fd] \in Files \cup Addrs => open'[fd] = open[fd]
  BY <1>1, <1>3 DEF IInv, TypeOK
<1>5. TypeOK'
  <2>1. tmpAddr' \in Addrs \cup {None}
    BY <1>2 DEF IInv, TypeOK
  <2> QED
    BY <1>1, <1>2, <1>4, <2>1 DEF IInv, TypeOK, confVars, sigVars, replyVars
<1>6. ServeInv'
  BY <1>1, <1>2, <1>4, ServeStill
<1>7. ReadInv'
  <2> SUFFICES ASSUME Replacing' PROVE ReadInv'
    BY DEF ReadInv
  <2>1. Replacing
    BY <1>1 DEF Reading, Replacing
  <2>2. PICK c \in Configs \ {None} : tmpAddr = c.addr
                                        /\ Holds(open, tmpTree, c)
    BY <2>1 DEF IInv, ReadInv
  <2>3. Distinct(tmpTree)
    BY <2>1 DEF IInv, ReadInv
  <2>4. Holds(open', tmpTree, c)
    BY <1>4, <2>2, HoldsStill
  <2>5. ~Reading'
    BY <1>2 DEF Reading
  <2> QED
    BY <1>1, <1>2, <2>2, <2>3, <2>4, <2>5 DEF ReadInv
<1>8. FileInv' /\ AskInv' /\ ReplyRight'
  BY <1>2 DEF FileInv, AskInv, ReplyRight, Reading
<1>9. BlankInv'
  BY <1>1, <1>2 DEF IInv, BlankInv, confVars
<1> QED
  BY <1>5, <1>6, <1>7, <1>8, <1>9 DEF IInv

LEMMA BindStep == ASSUME IInv, Bind PROVE IInv'
<1> USE KindsDiffer
<1>1. /\ pc \in {"bind", "rebind"} /\ Replacing /\ ~Reading
      /\ tmpTree' = NoTree /\ tmpAddr' = None
      /\ UNCHANGED <<config, file, lines, sigVars, request, replyVars>>
  BY DEF Bind, Replacing, Reading
<1>2. PICK c \in Configs \ {None} : tmpAddr = c.addr /\ Holds(open, tmpTree, c)
  BY <1>1 DEF IInv, ReadInv
<1>3. Distinct(tmpTree) /\ tmpAddr \in Addrs
  BY <1>1, <1>2, ConfigType DEF IInv, ReadInv
<1>4. NoTree \in [Datasets -> Fds \cup {None}] /\ <<>> \in Seq(Queries)
  BY DEF NoTree
<1>5. TypeOK /\ (pc = "bind" => serverFd = None)
  BY DEF IInv, BlankInv, Loading
<1>6. pc = "rebind" => /\ serverFd \in Fds /\ open[serverFd] = serverAddr
                       /\ serverAddr \in Addrs
  BY DEF IInv, ServeInv, Serving
<1>7. ASSUME pc' \in {"stopped", "setup", "done"}
      PROVE  ReadInv' /\ FileInv' /\ BlankInv' /\ AskInv' /\ ReplyRight'
  BY <1>1, <1>7 DEF ReadInv, FileInv, BlankInv, AskInv, ReplyRight, Replacing,
                    Reading, Loading
<1>8. CASE Fail /\ UNCHANGED <<open, confVars, inbox>>
  <2>1. pc' = IF pc = "bind" THEN "stopped" ELSE "done"
    BY <1>1, <1>8 DEF Fail, Loading
  <2>2. TypeOK'
    BY <1>1, <1>4, <1>5, <1>8, <2>1 DEF TypeOK, confVars, sigVars, replyVars
  <2>3. ServeInv'
    BY <1>1, <1>8, <2>1, ServeStill DEF Serving
  <2> QED
    BY <1>7, <2>1, <2>2, <2>3 DEF IInv
<1>9. CASE /\ pc = "rebind" /\ tmpAddr = serverAddr
           /\ Install(serverFd) /\ UNCHANGED <<open, inbox>>
  <2>1. /\ serverFd' = serverFd /\ serverAddr' = tmpAddr /\ tree' = tmpTree
        /\ pc' = "done" /\ UNCHANGED <<open, inbox>>
    BY <1>9 DEF Install
  <2>2. TypeOK'
    BY <1>1, <1>3, <1>4, <1>5, <2>1 DEF TypeOK, sigVars, replyVars
  <2>3. ServeInv'
    BY <1>2, <1>3, <1>6, <1>9, <2>1 DEF ServeInv
  <2> QED
    BY <1>7, <2>1, <2>2, <2>3 DEF IInv
<1>10. ASSUME Free(open) # {}, Install(Lowest(open)), inbox' = <<>>,
              open' = [f \in Fds |-> IF f = Lowest(open) THEN tmpAddr
                                     ELSE IF f = serverFd THEN None
                                     ELSE open[f]]
       PROVE  IInv'
  <2> DEFINE fd == Lowest(open)
  <2>1. fd \in Fds /\ open[fd] = None
    BY <1>10, LowestIsFree
  <2>2. /\ serverFd' = fd /\ serverAddr' = tmpAddr /\ tree' = tmpTree
        /\ pc' \in {"setup", "done"}
        /\ open' = [f \in Fds |-> IF f = fd THEN tmpAddr
                                  ELSE IF f = serverFd THEN None ELSE open[f]]
    BY <1>10 DEF Install
  <2> HIDE DEF fd
  <2>3. open' \in [Fds -> Files \cup Addrs \cup {"config", None}]
          /\ open'[fd] = tmpAddr
    BY <1>3, <1>5, <2>1, <2>2 DEF TypeOK
  <2>4. \A g \in Fds : open[g] \in Files => open'[g] = open[g]
    BY <1>1, <1>5, <1>6, <2>1, <2>2
  <2>5. Holds(open', tmpTree, c)
    BY <1>2, <2>4, HoldsStill
  <2>6. TypeOK'
    BY <1>1, <1>3, <1>4, <1>5, <1>10, <2>1, <2>2, <2>3
       DEF TypeOK, sigVars, replyVars
  <2>7. ServeInv'
    BY <1>2, <1>3, <2>1, <2>2, <2>3, <2>5 DEF ServeInv
  <2> QED
    BY <1>7, <2>2, <2>6, <2>7 DEF IInv
<1> QED
  BY <1>8, <1>9, <1>10 DEF Bind

\* The steps of main's loop that do not touch the buffers.
LEMMA LoopStep ==
    ASSUME IInv, SetUp \/ Check \/ Reloaded \/ Call \/ Send PROVE IInv'
<1>1. /\ UNCHANGED <<config, open, confVars, tmpVars, sigExit, due, inbox,
                     request, replyVars>>
      /\ sigConfig' \in {sigConfig, FALSE}
      /\ pc \in {"setup", "check", "done", "call", "send"}
      /\ pc' \in {"check", "stopped", "reload", "call", "recv"}
  BY DEF SetUp, Check, Reloaded, Call, Send, sigVars
<1>2. TypeOK'
  BY <1>1 DEF IInv, TypeOK, confVars, tmpVars, replyVars
<1>3. ServeInv' /\ ReadInv' /\ FileInv' /\ BlankInv'
  BY <1>1, FrameStep DEF Serving, Loading, Replacing
<1>4. AskInv' /\ ReplyRight'
  BY <1>1 DEF AskInv, ReplyRight
<1> QED
  BY <1>2, <1>3, <1>4 DEF IInv

LEMMA ReceiveStep == ASSUME IInv, Receive PROVE IInv'
<1>1. /\ pc = "recv" /\ inbox # <<>> /\ request' = Head(inbox)
      /\ inbox' = Tail(inbox)
      /\ pc' = IF tree[Head(inbox).ds] = None THEN "check" ELSE "handle"
      /\ UNCHANGED <<config, open, confVars, tmpVars, sigVars, replyVars>>
  BY DEF Receive
<1>2. Head(inbox) \in Queries /\ Tail(inbox) \in Seq(Queries)
  BY <1>1 DEF IInv, TypeOK
<1>3. TypeOK'
  BY <1>1, <1>2 DEF IInv, TypeOK, confVars, tmpVars, sigVars, replyVars
<1>4. ServeInv' /\ ReadInv' /\ FileInv' /\ BlankInv'
  BY <1>1, FrameStep DEF Serving, Loading, Replacing
<1>5. AskInv' /\ ReplyRight'
  BY <1>1, <1>2 DEF AskInv, ReplyRight, confVars
<1> QED
  BY <1>3, <1>4, <1>5 DEF IInv

\* What file_read leaves in the payload, unless it fails.
LEMMA FileReadRight ==
    ASSUME NEW f, NEW b, NEW buf, NEW read \in FileRead(f, b, buf)
    PROVE  /\ read.ret \in {0, -1}
           /\ read.buf = [h \in 1 .. 2 |-> read.buf[h]]
           /\ read.ret = 0 => \A h \in 1 .. 2 : HasPart(f, b, h) =>
                                 read.buf[h] = Part(f, b, h)
  BY DEF FileRead

LEMMA HandleQueryStep == ASSUME IInv, HandleQuery PROVE IInv'
<1> DEFINE f == open[tree[request.ds]]
           Reply(num, payload) == [cmd |-> request.cmd, ds |-> request.ds,
                                   num |-> num, payload |-> payload]
<1>1. /\ pc = "handle" /\ pc' \in {"send", "check"}
      /\ UNCHANGED <<config, open, confVars, tmpVars, sigVars, inbox, request>>
  BY DEF HandleQuery
<1>2. request \in Queries /\ AskInv'
  BY <1>1 DEF IInv, AskInv, confVars
<1>3. f' = f /\ request' = request
  BY <1>1 DEF confVars
<1>4. ret' \in {0, -1} /\ ReplyRight'
  <2>1. ret \in {0, -1}
    BY DEF IInv, TypeOK
  <2>2. CASE request.cmd = "block"
    <3>1. PICK read \in FileRead(f, request.num, reply.payload) :
             reply' = Reply(request.num, read.buf) /\ ret' = read.ret
      BY <2>2 DEF HandleQuery
    <3> HIDE DEF f
    <3>2. /\ ret' \in {0, -1} /\ reply'.payload = read.buf
          /\ ret' = 0 => \A h \in 1 .. 2 : HasPart(f, request.num, h) =>
                            read.buf[h] = Part(f, request.num, h)
      <4>1. ret' = read.ret /\ reply'.payload = read.buf
        BY <3>1
      <4>2. read \in FileRead(f, request.num, reply.payload)
        BY <3>1
      <4>3. /\ read.ret \in {0, -1}
            /\ read.ret = 0 => \A h \in 1 .. 2 : HasPart(f, request.num, h) =>
                                  read.buf[h] = Part(f, request.num, h)
        BY <4>2, FileReadRight, Zenon
      <4> QED
        BY <4>1, <4>3
    <3>3. /\ reply'.cmd = request.cmd /\ reply'.ds = request.ds
          /\ reply'.num = request.num
      BY <3>1
    <3>4. ReplyRight'
      BY <1>3, <2>2, <3>2, <3>3 DEF ReplyRight, f, HasPart, Part
    <3> QED
      BY <3>2, <3>4
  <2>3. CASE request.cmd = "size" /\ pc' = "send"
    <3>1. reply' = Reply(Size[f], reply.payload) /\ ret' = ret
      BY <2>3 DEF HandleQuery
    <3> HIDE DEF f
    <3>2. /\ reply'.cmd = request.cmd /\ reply'.ds = request.ds
          /\ reply'.num = Size[f]
      BY <3>1
    <3> QED
      BY <1>3, <2>1, <2>3, <3>1, <3>2 DEF ReplyRight, f
  <2>4. CASE request.cmd = "size" /\ pc' = "check"
    BY <2>1, <2>4 DEF HandleQuery, ReplyRight
  <2>5. CASE request.cmd = "servers"
    <3>1. PICK b \in Blocks : \E read \in FileRead(f, b, reply.payload) :
             /\ reply' = Reply(0, [read.buf EXCEPT ![1] = <<request.ds, 0>>])
             /\ ret' = read.ret
      BY <2>5 DEF HandleQuery
    <3>2. PICK read \in FileRead(f, b, reply.payload) :
             /\ reply' = Reply(0, [read.buf EXCEPT ![1] = <<request.ds, 0>>])
             /\ ret' = read.ret
      BY <3>1
    <3> HIDE DEF f
    <3>3. ret' \in {0, -1} /\ read.buf = [h \in 1 .. 2 |-> read.buf[h]]
      BY <3>2, FileReadRight
    <3>4. reply'.payload[1] = <<request.ds, 0>>
      BY <3>2, <3>3
    <3>5. reply'.cmd = request.cmd /\ reply'.ds = request.ds
      BY <3>2
    <3> QED
      BY <1>3, <2>5, <3>3, <3>4, <3>5 DEF ReplyRight
  <2>6. CASE request.cmd = "other"
    <3>1. reply' = Reply(reply.num, reply.payload) /\ ret' = ret
      BY <2>6 DEF HandleQuery
    <3> HIDE DEF f
    <3>2. reply'.cmd = request.cmd /\ reply'.ds = request.ds
      BY <3>1
    <3> QED
      BY <1>3, <2>1, <2>6, <3>1, <3>2 DEF ReplyRight
  <2>7. request.cmd \in {"block", "size", "servers", "other"}
    BY <1>2 DEF Queries
  <2> QED
    BY <1>1, <2>2, <2>3, <2>4, <2>5, <2>6, <2>7
<1>5. TypeOK'
  BY <1>1, <1>4 DEF IInv, TypeOK, confVars, tmpVars, sigVars, replyVars
<1>6. ServeInv' /\ ReadInv' /\ FileInv' /\ BlankInv'
  BY <1>1, FrameStep DEF Serving, Loading, Replacing
<1> QED
  BY <1>2, <1>4, <1>5, <1>6 DEF IInv

\* Signals: the handlers touch the flags only.
LEMMA SignalStep == ASSUME IInv, Hup \/ Term PROVE IInv'
<1>1. /\ UNCHANGED <<config, open, confVars, tmpVars, inbox, request, replyVars>>
      /\ {sigExit', sigConfig', due'} \subseteq BOOLEAN /\ Running
      /\ pc' = IF pc = "recv" THEN "check" ELSE pc
  BY DEF Hup, Term, IInv, TypeOK
<1>2. TypeOK'
  BY <1>1 DEF IInv, TypeOK, confVars, tmpVars, replyVars
<1>3. ServeInv' /\ ReadInv' /\ FileInv' /\ BlankInv'
  BY <1>1, FrameStep DEF Serving, Loading, Replacing
<1>4. AskInv' /\ ReplyRight'
  BY <1>1 DEF IInv, AskInv, ReplyRight, confVars, replyVars, HasPart, Part
<1> QED
  BY <1>2, <1>3, <1>4 DEF IInv

\* A query that arrives, an edited file, and no step at all.
LEMMA OutsideStep ==
    ASSUME IInv, Clients \/ (\E c \in Configs : Edit(c)) \/ UNCHANGED vars
    PROVE  IInv'
<1>1. /\ UNCHANGED <<open, confVars, tmpVars, sigVars, request, replyVars, pc>>
      /\ config' \in Configs /\ inbox' \in Seq(Queries)
  <2>1. config \in Configs /\ inbox \in Seq(Queries)
    BY DEF IInv, TypeOK
  <2>2. CASE Clients
    BY <2>1, <2>2 DEF Clients, Query
  <2>3. CASE \E c \in Configs : Edit(c)
    BY <2>1, <2>3 DEF Edit
  <2>4. CASE UNCHANGED vars
    BY <2>1, <2>4 DEF vars
  <2> QED
    BY <2>2, <2>3, <2>4
<1>2. TypeOK'
  BY <1>1 DEF IInv, TypeOK, confVars, tmpVars, sigVars, replyVars
<1>3. ServeInv' /\ ReadInv' /\ FileInv' /\ BlankInv'
  BY <1>1, FrameStep DEF Serving, Loading, Replacing
<1>4. AskInv' /\ ReplyRight'
  BY <1>1 DEF IInv, AskInv, ReplyRight, confVars, replyVars, HasPart, Part
<1> QED
  BY <1>2, <1>3, <1>4 DEF IInv

-----------------------------------------------------------------------------

\* The inductive invariant of configure and of main's loop holds in every
\* reachable state, whatever the file is edited to and whenever signals come.
THEOREM Invariance == Spec => []IInv
<1>1. IInv /\ [Next]_vars => IInv'
  BY OpenConfigStep, ParseLineStep, CloseConfigStep, BindStep, LoopStep,
     ReceiveStep, HandleQueryStep, SignalStep, OutsideStep
     DEF Next, Main, Configure
<1> QED
  BY InitInv, <1>1, PTL DEF Spec

\* Every variable has its type: no descriptor is used that could not be had.
THEOREM TypeCorrect == Spec => []TypeOK
<1>1. IInv => TypeOK
  BY DEF IInv
<1> QED
  BY Invariance, <1>1, PTL

\* configure replaces the address and all images, or nothing.
THEOREM ServesOneConfiguration == Spec => []OneConfiguration
<1>1. IInv => OneConfiguration
  BY DEF IInv, ServeInv, Serving, OneConfiguration, Running, Loading, Holds
<1> QED
  BY Invariance, <1>1, PTL

\* No step of configure closes what is in use, or uses a descriptor twice.
THEOREM DescriptorsAreRight == Spec => []DescriptorsRight
<1>1. IInv => DescriptorsRight
  <2> SUFFICES ASSUME IInv, Running PROVE DescriptorsRight
    BY DEF DescriptorsRight
  <2>1. Serving
    BY DEF Serving, Running, Loading
  <2>2. PICK c \in Configs \ {None} : Holds(open, tree, c)
    BY <2>1 DEF IInv, ServeInv
  <2>3. \A d \in Datasets : tree[d] # None => open[tree[d]] \in Files
    BY <2>2, NamedImages DEF Holds
  <2>4. open[serverFd] = serverAddr /\ Distinct(tree)
    BY <2>1 DEF IInv, ServeInv
  <2> QED
    BY <2>3, <2>4 DEF DescriptorsRight, Distinct
<1> QED
  BY Invariance, <1>1, PTL

\* A reply answers the request it is sent for, though buffers are used again;
\* but for the block of a read that failed, and for unknown commands.
THEOREM RepliesAreRight == Spec => []ReplyRight
<1>1. IInv => ReplyRight
  BY DEF IInv
<1> QED
  BY Invariance, <1>1, PTL
=============================================================================
