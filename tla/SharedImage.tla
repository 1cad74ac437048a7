---------------------------- MODULE SharedImage ----------------------------
(***************************************************************************)
(* image_shared_memory (common/image_shared_memory.cpp): how images reach  *)
(* the clients.  write_image copies an image to the next of buffer_size    *)
(* shared segments and returns its metadata, which is announced to the     *)
(* clients; read_image, in a client, attaches to the segment named there   *)
(* and copies the image out of it.                                         *)
(*                                                                         *)
(* One object is written by two threads, nothing but the segments' locks   *)
(* between them: the main thread for the frames of the stream, the misc    *)
(* thread for the images it has triggered.  Every load and store of what   *)
(* they share (m_index, m_frame_counter, m_shared_memories) is a step.     *)
(* The server may end at any step and be started again; so may a client.   *)
(*                                                                         *)
(* Images are numbered in the order in which their writes begin.  All have *)
(* one size: the segments of another size have other keys.                 *)
(***************************************************************************)
EXTENDS Naturals, Sequences

CONSTANTS
  Writers,    \* the server's threads that write
  Clients,    \* the processes that read
  MaxImages,  \* bound: writes begun
  MaxDeaths   \* bound: ends of the server or a client

ASSUME SharedImageAssumption == MaxImages \in Nat /\ MaxDeaths \in Nat

BufferSize == 3
Slot  == 0 .. BufferSize - 1
Image == 1 .. MaxImages

NoImage == 0                \* a segment that was just created
Torn    == MaxImages + 1    \* one that holds parts of several images
Content == Image \cup {NoImage, Torn}

Server == "server"          \* as the holder of a handle or a lock
Free   == "free"
Lost   == "lost"            \* the holder of the lock has died
Holder == {Server} \cup Clients

ASSUME HolderAssumption == Clients \cap {Server, Free, Lost} = {}

VARIABLES
  index,      \* m_index
  counter,    \* m_frame_counter
  mapped,     \* m_shared_memories: the slots whose segments it knows
  attached,   \* external: per slot, the processes that hold the segment
  content,    \* external: per slot, what the segment holds
  lock,       \* external: per slot, who has locked the segment
  writer,     \* the threads in write_image
  client,     \* the clients in read_image
  begun,      \* writes begun
  announced,  \* the metadata announced to the clients
  overlap,    \* history: two writes have been in progress at a time
  life,       \* history: how often the server has been started again
  deaths      \* ends of the server or a client

serverVars  == <<index, counter, mapped>>
segmentVars == <<attached, content, lock>>
historyVars == <<begun, announced, overlap, life, deaths>>
vars == <<serverVars, segmentVars, writer, client, historyVars>>

\* reg holds a value loaded from m_index or m_frame_counter; alone, whether no
\* other write has been in progress since this one began.
IdleWriter == [at |-> "idle", image |-> NoImage, slot |-> 0, reg |-> 0,
               alone |-> FALSE]

\* next is the announcement it reads next.
IdleClient == [at |-> "idle", next |-> 1]

Init ==
  /\ index = 0 /\ counter = 0 /\ mapped = {}
  /\ attached = [s \in Slot |-> {}]
  /\ content = [s \in Slot |-> NoImage]
  /\ lock = [s \in Slot |-> Free]
  /\ writer = [w \in Writers |-> IdleWriter]
  /\ client = [c \in Clients |-> IdleClient]
  /\ begun = 0 /\ announced = <<>> /\ overlap = FALSE
  /\ life = 0 /\ deaths = 0

-----------------------------------------------------------------------------
(* write_image.                                                            *)

Others(w) == {v \in Writers \ {w} : writer[v].at # "idle"}

WriterGoes(w, from, to) ==
  /\ writer[w].at = from
  /\ writer' = [writer EXCEPT ![w].at = to]
  /\ UNCHANGED client

\* write_index is loaded.
LoadIndex(w) ==
  /\ writer[w].at = "idle"
  /\ begun < MaxImages
  /\ begun' = begun + 1
  /\ overlap' = (overlap \/ Others(w) # {})
  /\ writer' = [v \in Writers |->
       IF v = w THEN [at |-> "reload", image |-> begun + 1, slot |-> index,
                      reg |-> 0, alone |-> Others(w) = {}]
                ELSE [writer[v] EXCEPT !.alone = FALSE]]
  /\ UNCHANGED <<serverVars, segmentVars, client, announced, life,
                 deaths>>

\* The end of write_image.
WriterReturns(w, from) ==
  /\ writer[w].at = from
  /\ writer' = [writer EXCEPT ![w] = IdleWriter]
  /\ UNCHANGED client

\* The increment loads m_index again, and then stores it.
ReloadIndex(w) ==
  /\ writer[w].at = "reload"
  /\ writer' = [writer EXCEPT ![w].at = "advance", ![w].reg = index]
  /\ UNCHANGED <<serverVars, segmentVars, client, historyVars>>

\* Mutant: the index runs over two of the three buffers.
AdvanceShort(w) ==
  /\ WriterGoes(w, "advance", "find")
  /\ index' = (writer[w].reg + 1) % (BufferSize - 1)
  /\ UNCHANGED <<counter, mapped, segmentVars, historyVars>>

AdvanceIndex(w) ==
  /\ writer[w].at = "advance"
  /\ writer' = [writer EXCEPT ![w].at = "find", ![w].reg = 0]
  /\ index' = (writer[w].reg + 1) % BufferSize
  /\ UNCHANGED <<client, counter, mapped, segmentVars, historyVars>>

\* A segment can be created if no process holds it.
CreateMemory(w) ==
  LET s == writer[w].slot IN
  /\ WriterGoes(w, "find", "insert")
  /\ s \notin mapped
  /\ attached[s] = {}
  /\ attached' = [attached EXCEPT ![s] = {Server}]
  /\ content' = [content EXCEPT ![s] = NoImage]
  /\ UNCHANGED <<serverVars, lock, historyVars>>

\* write_image returns false, and the client is told.
CreateFails(w) ==
  /\ WriterReturns(w, "find")
  /\ writer[w].slot \notin mapped
  /\ attached[writer[w].slot] # {}
  /\ UNCHANGED <<serverVars, segmentVars, historyVars>>

\* The map is not made for two threads: what another one inserts at the same
\* time may be lost.  (It may also end the process, see ServerDies.)
InsertMemory(w) ==
  /\ WriterGoes(w, "insert", "lock")
  /\ \/ mapped' = mapped \cup {writer[w].slot}
     \/ /\ \E v \in Others(w) : writer[v].at = "insert"
        /\ UNCHANGED mapped
  /\ UNCHANGED <<index, counter, segmentVars, historyVars>>

Copying(s) == {w \in Writers : writer[w].at \in {"copy", "mixed"}
                               /\ writer[w].slot = s}

\* The segment was found in the map, or has just been created.  A thread that
\* begins to copy while another one copies leaves a mixture, as does the other.
CopyBegins(w) ==
  LET s == writer[w].slot
      mixed == Copying(s) \cup {w} IN
  /\ \/ writer[w].at = "lock"
     \/ writer[w].at = "find" /\ s \in mapped
  /\ writer' = IF Copying(s) = {} THEN [writer EXCEPT ![w].at = "copy"]
               ELSE [v \in Writers |-> IF v \in mixed
                                       THEN [writer[v] EXCEPT !.at = "mixed"]
                                       ELSE writer[v]]
  /\ content' = [content EXCEPT ![s] = Torn]
  /\ UNCHANGED <<serverVars, attached, client, historyVars>>

\* Mutant: the segment is written to without its lock.
CopyUnlocked(w) == CopyBegins(w) /\ UNCHANGED lock

\* The lock belongs to the object, not to a thread: a second thread of the
\* server that locks it passes.
LockMemory(w) ==
  /\ CopyBegins(w)
  /\ lock[writer[w].slot] \in {Free, Server}
  /\ lock' = [lock EXCEPT ![writer[w].slot] = Server]

\* The end of the copy, and unlock.
CopyEnds(w) ==
  LET s == writer[w].slot IN
  /\ \/ /\ WriterGoes(w, "copy", "count")
        /\ content' = [content EXCEPT ![s] = writer[w].image]
     \/ /\ WriterGoes(w, "mixed", "count")
        /\ \/ UNCHANGED content
           \/ /\ Copying(s) = {w}
              /\ content' = [content EXCEPT ![s] = writer[w].image]
  /\ lock' = [lock EXCEPT ![s] = IF @ = Server THEN Free ELSE @]
  /\ UNCHANGED <<serverVars, attached, historyVars>>

LoadCounter(w) ==
  /\ writer[w].at = "count"
  /\ writer' = [writer EXCEPT ![w].at = "store", ![w].reg = counter]
  /\ UNCHANGED <<serverVars, segmentVars, client, historyVars>>

\* Mutant: the counter is announced and never incremented.
CounterStays(w) ==
  /\ WriterGoes(w, "store", "announce")
  /\ UNCHANGED <<serverVars, segmentVars, historyVars>>

StoreCounter(w) ==
  /\ WriterGoes(w, "store", "announce")
  /\ counter' = writer[w].reg + 1
  /\ UNCHANGED <<index, mapped, segmentVars, historyVars>>

\* meta is filled in; it is posted to the main thread and sent.
Announce(w) ==
  /\ WriterReturns(w, "announce")
  /\ announced' = Append(announced,
       [image |-> writer[w].image, slot |-> writer[w].slot,
        frame_id |-> counter, alone |-> writer[w].alone, life |-> life])
  /\ UNCHANGED <<serverVars, segmentVars, begun, overlap, life, deaths>>

-----------------------------------------------------------------------------
(* read_image, in a client.                                                *)

ClientGoes(c, from, to) ==
  /\ client[c].at = from
  /\ client' = [client EXCEPT ![c].at = to]
  /\ UNCHANGED writer

ClientDone(c, from) ==
  /\ client[c].at = from
  /\ client' = [client EXCEPT ![c] = [at |-> "idle", next |-> @.next + 1]]
  /\ UNCHANGED writer

Meta(c) == announced[client[c].next]

\* A client need not look at every announcement.
SkipImage(c) ==
  /\ client[c].next <= Len(announced)
  /\ ClientDone(c, "idle")
  /\ UNCHANGED <<serverVars, segmentVars, historyVars>>

\* The segment is looked for in the client's own map, or attached to.
AttachMemory(c) ==
  /\ client[c].next <= Len(announced)
  /\ attached[Meta(c).slot] # {}
  /\ ClientGoes(c, "idle", "lock")
  /\ attached' = [attached EXCEPT ![Meta(c).slot] = @ \cup {c}]
  /\ UNCHANGED <<serverVars, content, lock, historyVars>>

\* There is no such segment any more: a null image is returned.
AttachFails(c) ==
  /\ client[c].next <= Len(announced)
  /\ attached[Meta(c).slot] = {}
  /\ ClientDone(c, "idle")
  /\ UNCHANGED <<serverVars, segmentVars, historyVars>>

ClientLocks(c) ==
  /\ ClientGoes(c, "lock", "read")
  /\ lock[Meta(c).slot] = Free
  /\ lock' = [lock EXCEPT ![Meta(c).slot] = c]
  /\ UNCHANGED <<serverVars, attached, content, historyVars>>

\* Mutant: the return after the copy forgets to unlock.
ReadForgets(c) ==
  /\ ClientDone(c, "read")
  /\ UNCHANGED <<serverVars, segmentVars, historyVars>>

\* The image is copied, and the segment unlocked; it is never detached from.
ReadImage(c) ==
  /\ ClientDone(c, "read")
  /\ lock' = [lock EXCEPT ![Meta(c).slot] = Free]
  /\ UNCHANGED <<serverVars, attached, content, historyVars>>

-----------------------------------------------------------------------------
(* The ends of processes.                                                  *)

\* External: a segment, with its lock, is gone with the last process that
\* holds it, and a lock whose holder has died stays taken.
Releases(p) ==
  /\ attached' = [s \in Slot |-> attached[s] \ {p}]
  /\ lock' = [s \in Slot |-> IF attached[s] \subseteq {p} THEN Free
                             ELSE IF lock[s] = p THEN Lost ELSE lock[s]]
  /\ UNCHANGED content
  /\ deaths < MaxDeaths
  /\ deaths' = deaths + 1

\* The server ends, at whatever step, and is started again.
ServerDies ==
  /\ Releases(Server)
  /\ index' = 0 /\ counter' = 0 /\ mapped' = {}
  /\ writer' = [w \in Writers |-> IdleWriter]
  /\ life' = life + 1
  /\ UNCHANGED <<client, begun, announced, overlap>>

ClientDies(c) ==
  /\ Releases(c)
  /\ client' = [client EXCEPT ![c] = [at |-> "idle", next |-> @.next]]
  /\ UNCHANGED <<serverVars, writer, begun, announced, overlap, life>>

-----------------------------------------------------------------------------
WriteImage(w) ==
  \/ ReloadIndex(w) \/ AdvanceIndex(w)
  \/ CreateMemory(w) \/ CreateFails(w) \/ InsertMemory(w)
  \/ LockMemory(w) \/ CopyEnds(w)
  \/ LoadCounter(w) \/ StoreCounter(w) \/ Announce(w)

ReadWork(c) == ClientLocks(c) \/ ReadImage(c)

\* Nothing is left to do.
Rest ==
  /\ begun = MaxImages
  /\ \A w \in Writers : writer[w].at \in {"idle", "find", "lock"}
  /\ UNCHANGED vars

Next ==
  \/ \E w \in Writers : LoadIndex(w) \/ WriteImage(w)
  \/ \E c \in Clients : \/ SkipImage(c) \/ AttachMemory(c) \/ AttachFails(c)
                        \/ ReadWork(c) \/ ClientDies(c)
  \/ ServerDies
  \/ Rest

Spec == Init /\ [][Next]_vars

-----------------------------------------------------------------------------
(* ADR 007, "triple-buffered": an image written while no other write was   *)
(* in progress stays whole in its segment until the third write after it   *)
(* begins, even if those writes race with each other for m_index.          *)
SurvivesTwoWrites ==
  \A n \in DOMAIN announced :
    LET meta == announced[n] IN
    meta.alone /\ meta.life = life /\ begun < meta.image + BufferSize =>
      content[meta.slot] = meta.image

(* A client orders the images by frame_id.  The increments of two writes   *)
(* at a time may be lost, but of two images written alone the later one    *)
(* has the greater frame_id, whatever the writes between them have done.   *)
FrameIdsIncrease ==
  \A m, n \in DOMAIN announced :
    /\ m < n /\ announced[m].life = announced[n].life
    /\ announced[m].alone /\ announced[n].alone
    => announced[m].frame_id < announced[n].frame_id

(* What a client copies is never half an image, not even after the death   *)
(* of the server in the middle of a copy, unless two of its threads have   *)
(* written at a time: the lock does not keep these apart.                  *)
NoTornRead ==
  \A c \in Clients :
    client[c].at = "read" => overlap \/ content[Meta(c).slot] # Torn

(* The lock of a segment is never left behind: its holder is about to      *)
(* unlock it, or has died with it.  So a slow client does not stop the     *)
(* main thread for ever, but one that dies while it reads does.            *)
LockIsReleased ==
  \A s \in Slot :
    \/ lock[s] \in {Free, Lost}
    \/ lock[s] = Server /\ Copying(s) # {}
    \/ \E c \in Clients :
         lock[s] = c /\ client[c].at = "read" /\ Meta(c).slot = s
=============================================================================
