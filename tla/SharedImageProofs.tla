-------------------------- MODULE SharedImageProofs -------------------------
(***************************************************************************)
(* What the segments' locks are worth, for any number of writing threads,  *)
(* clients, images and deaths: none is left behind, and a client never     *)
(* copies half an image as long as one thread writes at a time.            *)
(***************************************************************************)
EXTENDS SharedImage, TLAPS

WriterPlace == {"idle", "reload", "advance", "find", "insert", "lock", "copy",
                "mixed", "count", "store", "announce"}
WriterState == [at : WriterPlace, image : 0 .. MaxImages, slot : Slot,
                reg : Nat, alone : BOOLEAN]
ClientState == [at : {"idle", "lock", "read"}, next : Nat \ {0}]
Metadata    == [image : 0 .. MaxImages, slot : Slot, frame_id : Nat,
                alone : BOOLEAN, life : Nat]

TypeOK ==
  /\ index \in Slot /\ counter \in Nat
  /\ attached \in [Slot -> SUBSET Holder]
  /\ content \in [Slot -> Content]
  /\ lock \in [Slot -> Holder \cup {Free, Lost}]
  /\ writer \in [Writers -> WriterState]
  /\ client \in [Clients -> ClientState]
  /\ begun \in Nat /\ life \in Nat /\ overlap \in BOOLEAN
  /\ announced \in Seq(Metadata)

\* A thread in write_image writes an image, and a client in read_image reads
\* one that has been announced.
Busy ==
  /\ \A w \in Writers : writer[w].at # "idle" => writer[w].image \in Image
  /\ \A c \in Clients : client[c].at # "idle" =>
       client[c].next \in 1 .. Len(announced)

\* A client holds the segment it reads, and has locked it while it copies.
ClientHolds ==
  \A c \in Clients :
    /\ client[c].at # "idle" => c \in attached[Meta(c).slot]
    /\ client[c].at = "read" => lock[Meta(c).slot] = c

\* Unless two threads have written at a time: one writes, ...
OneWrites ==
  overlap \/ /\ \A v, w \in Writers :
                  writer[v].at # "idle" /\ writer[w].at # "idle" => v = w
             /\ \A w \in Writers : writer[w].at # "mixed"

\* ... and half an image is under the lock of the server, which copies or has
\* died, or in no segment that a client can attach to.
TornIsLocked ==
  overlap \/ \A s \in Slot :
               content[s] = Torn => \/ lock[s] \in {Server, Lost}
                                    \/ attached[s] = {}

Inv == Busy /\ ClientHolds /\ OneWrites /\ TornIsLocked /\ LockIsReleased

-----------------------------------------------------------------------------
(* Type correctness.                                                       *)

(* There are three slots.                                                   *)
LEMMA Slots == 0 \in Slot /\ Slot = 0 .. 2 /\ BufferSize = 3
  BY DEF Slot, BufferSize

(* The index wraps around.                                                  *)
LEMMA NextSlot == ASSUME NEW n \in Nat PROVE (n + 1) % BufferSize \in Slot
  BY DEF Slot, BufferSize

(* An idle thread and an idle client are well typed.                        *)
LEMMA IdleTypes == IdleWriter \in WriterState /\ IdleClient \in ClientState
  BY Slots, SharedImageAssumption
     DEF IdleWriter, WriterState, WriterPlace, IdleClient, ClientState, NoImage

(* Moving on keeps a thread and a client well typed.                       *)
LEMMA MoveTypes ==
  /\ \A x \in WriterState, to \in WriterPlace :
       [x EXCEPT !.at = to] \in WriterState
  /\ \A x \in WriterState, to \in WriterPlace, r \in Nat :
       [x EXCEPT !.at = to, !.reg = r] \in WriterState
  /\ \A x \in ClientState, to \in {"idle", "lock", "read"} :
       [x EXCEPT !.at = to] \in ClientState
  BY DEF WriterState, ClientState

(* So does a step to a place of write_image.                                *)
LEMMA GoesTypes ==
  ASSUME TypeOK, NEW w \in Writers, NEW from, NEW to \in WriterPlace,
         WriterGoes(w, from, to)
  PROVE  writer' \in [Writers -> WriterState] /\ client' = client
  BY MoveTypes DEF TypeOK, WriterGoes

(* write_image keeps the types.                                             *)
LEMMA TypeWrite ==
  ASSUME TypeOK, NEW w \in Writers, LoadIndex(w) \/ WriteImage(w)
  PROVE  TypeOK'
  <1> USE SharedImageAssumption, Slots
      DEF TypeOK, serverVars, segmentVars, historyVars
  <1>w. writer[w] \in WriterState /\ writer[w].slot \in Slot
        /\ writer[w].reg \in Nat /\ writer[w].image \in 0 .. MaxImages
    BY DEF WriterState
  <1>1. CASE LoadIndex(w)
    <2>1. \A v \in Writers : [writer[v] EXCEPT !.alone = FALSE] \in WriterState
      BY DEF WriterState
    <2>2. [at |-> "reload", image |-> begun + 1, slot |-> index, reg |-> 0,
           alone |-> Others(w) = {}] \in WriterState
      BY <1>1 DEF LoadIndex, WriterState, WriterPlace
    <2>3. overlap' \in BOOLEAN
      BY <1>1 DEF LoadIndex
    <2> QED
      BY <1>1, <2>1, <2>2, <2>3 DEF LoadIndex
  <1>2. CASE ReloadIndex(w)
    <2> DEFINE x == [writer[w] EXCEPT !.at = "advance", !.reg = index]
    <2>1. "advance" \in WriterPlace /\ index \in Nat
      BY DEF WriterPlace
    <2>2. x \in WriterState
      BY <1>w, <2>1, MoveTypes
    <2>3. writer' = [writer EXCEPT ![w] = x]
      BY <1>w, <1>2 DEF ReloadIndex
    <2> HIDE DEF x
    <2> QED
      BY <1>2, <2>2, <2>3 DEF ReloadIndex
  <1>3. CASE AdvanceIndex(w)
    BY <1>w, <1>3, MoveTypes, NextSlot DEF AdvanceIndex, WriterPlace
  <1>4. CASE CreateMemory(w)
    BY <1>w, <1>4, GoesTypes
       DEF CreateMemory, WriterPlace, Content, Holder
  <1>5. CASE CreateFails(w)
    BY <1>5, IdleTypes DEF CreateFails, WriterReturns
  <1>6. CASE InsertMemory(w)
    BY <1>w, <1>6, GoesTypes DEF InsertMemory, WriterPlace
  <1>7. CASE LockMemory(w)
    <2>1. \A v \in Writers : [writer[v] EXCEPT !.at = "mixed"] \in WriterState
      BY MoveTypes DEF WriterPlace
    <2>2. [writer[w] EXCEPT !.at = "copy"] \in WriterState
      BY <1>w, MoveTypes DEF WriterPlace
    <2>3. writer' \in [Writers -> WriterState]
      BY <1>7, <2>1, <2>2 DEF LockMemory, CopyBegins
    <2> QED
      BY <1>w, <1>7, <2>3 DEF LockMemory, CopyBegins, Content, Holder
  <1>8. CASE CopyEnds(w)
    <2>1. writer' \in [Writers -> WriterState]
      BY <1>8, GoesTypes DEF CopyEnds, WriterPlace
    <2>2. content' \in [Slot -> Content]
      BY <1>w, <1>8 DEF CopyEnds, Content, Image, NoImage
    <2>3. lock' \in [Slot -> Holder \cup {Free, Lost}]
      BY <1>w, <1>8 DEF CopyEnds
    <2> QED
      BY <1>8, <2>1, <2>2, <2>3 DEF CopyEnds, WriterGoes
  <1>9. CASE LoadCounter(w)
    <2> DEFINE x == [writer[w] EXCEPT !.at = "store", !.reg = counter]
    <2>1. "store" \in WriterPlace /\ counter \in Nat
      BY DEF WriterPlace
    <2>2. x \in WriterState
      BY <1>w, <2>1, MoveTypes
    <2>3. writer' = [writer EXCEPT ![w] = x]
      BY <1>w, <1>9 DEF LoadCounter
    <2> HIDE DEF x
    <2> QED
      BY <1>9, <2>2, <2>3 DEF LoadCounter
  <1>10. CASE StoreCounter(w)
    BY <1>w, <1>10, GoesTypes DEF StoreCounter, WriterPlace
  <1>11. CASE Announce(w)
    <2>1. [image |-> writer[w].image, slot |-> writer[w].slot,
           frame_id |-> counter, alone |-> writer[w].alone,
           life |-> life] \in Metadata
      BY <1>w DEF Metadata, WriterState
    <2> QED
      BY <1>11, <2>1, IdleTypes DEF Announce, WriterReturns
  <1> QED
    BY <1>1, <1>2, <1>3, <1>4, <1>5, <1>6, <1>7, <1>8, <1>9, <1>10, <1>11
       DEF WriteImage

(* read_image keeps the types.                                              *)
LEMMA TypeRead ==
  ASSUME TypeOK, NEW c \in Clients,
         SkipImage(c) \/ AttachMemory(c) \/ AttachFails(c) \/ ReadWork(c)
  PROVE  TypeOK'
  <1> USE DEF TypeOK, serverVars, segmentVars, historyVars
  <1>c. client[c] \in ClientState /\ client[c].next \in Nat
    BY DEF ClientState
  <1>1. \A from : ClientDone(c, from) => client' \in [Clients -> ClientState]
    BY <1>c DEF ClientDone, ClientState
  <1>2. \A from, to \in {"idle", "lock", "read"} :
          ClientGoes(c, from, to) => client' \in [Clients -> ClientState]
    BY <1>c, MoveTypes DEF ClientGoes
  <1>3. CASE SkipImage(c) \/ AttachFails(c)
    BY <1>1, <1>3 DEF SkipImage, AttachFails, ClientDone
  <1>4. CASE AttachMemory(c)
    BY <1>2, <1>4 DEF AttachMemory, ClientGoes, Holder
  <1>5. CASE ClientLocks(c)
    BY <1>2, <1>5 DEF ClientLocks, ClientGoes, Holder
  <1>6. CASE ReadImage(c)
    BY <1>1, <1>6 DEF ReadImage, ClientDone
  <1> QED
    BY <1>3, <1>4, <1>5, <1>6 DEF ReadWork

(* The end of a process keeps the types.                                    *)
LEMMA TypeDeath ==
  ASSUME TypeOK, ServerDies \/ \E c \in Clients : ClientDies(c)
  PROVE  TypeOK'
  <1> USE DEF TypeOK
  <1>1. CASE ServerDies
    BY <1>1, IdleTypes, Slots DEF ServerDies, Releases
  <1>2. ASSUME NEW c \in Clients, ClientDies(c) PROVE TypeOK'
    <2>1. [at |-> "idle", next |-> client[c].next] \in ClientState
      BY DEF ClientState
    <2> QED
      BY <1>2, <2>1 DEF ClientDies, Releases, serverVars
  <1> QED
    BY <1>1, <1>2

-----------------------------------------------------------------------------
(* Who holds the locks.                                                    *)

(* What has been announced stays as it is.                                 *)
LEMMA AnnouncedStays ==
  ASSUME TypeOK, NEW n \in 1 .. Len(announced),
         \/ announced' = announced
         \/ \E m \in Metadata : announced' = Append(announced, m)
  PROVE  n \in 1 .. Len(announced') /\ announced'[n] = announced[n]
  BY DEF TypeOK

(* A client that reads has the metadata of an image.                       *)
LEMMA MetaType ==
  ASSUME TypeOK, Busy, NEW c \in Clients, client[c].at # "idle"
  PROVE  Meta(c).slot \in Slot
  <1>1. client[c].next \in 1 .. Len(announced)
    BY DEF Busy
  <1>2. announced[client[c].next] \in Metadata
    BY <1>1 DEF TypeOK
  <1> QED
    BY <1>2 DEF Meta, Metadata

(* A thread that writes leaves the clients alone, and what they read, and  *)
(* the locks they hold.                                                    *)
LEMMA WriterLeavesClients ==
  ASSUME TypeOK, Inv, NEW w \in Writers, LoadIndex(w) \/ WriteImage(w)
  PROVE  /\ client' = client
         /\ \A c \in Clients : client[c].at # "idle" =>
              /\ client[c].next \in 1 .. Len(announced')
              /\ announced'[client[c].next] = announced[client[c].next]
         /\ \A s \in Slot : attached[s] \subseteq attached'[s]
         /\ \A s \in Slot : lock[s] \in Clients => lock'[s] = lock[s]
  <1> USE DEF serverVars, segmentVars, historyVars
  <1>1. client' = client
    BY DEF LoadIndex, WriteImage, ReloadIndex, AdvanceIndex, CreateMemory,
           CreateFails, InsertMemory, LockMemory, CopyBegins, CopyEnds,
           LoadCounter, StoreCounter, Announce, WriterGoes, WriterReturns
  <1>2. announced' = announced \/ \E m \in Metadata :
                                   announced' = Append(announced, m)
    <2>1. CASE Announce(w)
      <3>1. [image |-> writer[w].image, slot |-> writer[w].slot,
             frame_id |-> counter, alone |-> writer[w].alone,
             life |-> life] \in Metadata
        BY DEF TypeOK, Metadata, WriterState
      <3> QED
        BY <2>1, <3>1 DEF Announce
    <2>2. CASE ~Announce(w)
      BY <2>2 DEF LoadIndex, WriteImage, ReloadIndex, AdvanceIndex,
                  CreateMemory, CreateFails, InsertMemory, LockMemory,
                  CopyBegins, CopyEnds, LoadCounter, StoreCounter
    <2> QED
      BY <2>1, <2>2
  <1>3. \A s \in Slot : attached[s] \subseteq attached'[s]
    BY DEF TypeOK, LoadIndex, WriteImage, ReloadIndex, AdvanceIndex,
           CreateMemory, CreateFails, InsertMemory, LockMemory, CopyBegins,
           CopyEnds, LoadCounter, StoreCounter, Announce
  <1>4. \A s \in Slot : lock[s] \in Clients => lock'[s] = lock[s]
    <2>1. CASE LockMemory(w)
      BY <2>1, HolderAssumption DEF TypeOK, LockMemory
    <2>2. CASE CopyEnds(w)
      BY <2>2, HolderAssumption DEF TypeOK, CopyEnds
    <2>3. CASE ~LockMemory(w) /\ ~CopyEnds(w)
      BY <2>3 DEF LoadIndex, WriteImage, ReloadIndex, AdvanceIndex,
                  CreateMemory, CreateFails, InsertMemory, LoadCounter,
                  StoreCounter, Announce
    <2> QED
      BY <2>1, <2>2, <2>3
  <1> QED
    BY <1>1, <1>2, <1>3, <1>4, AnnouncedStays DEF Inv, Busy

(* A thread in write_image leaves the others where they are, but for those *)
(* whose copy it mixes with its own; it keeps its image and its slot.      *)
Same(v, w) == writer'[v].image = writer[w].image
              /\ writer'[v].slot = writer[w].slot

(* A step from one place of write_image to the next.                        *)
LEMMA GoesSame ==
  ASSUME TypeOK, NEW w \in Writers, NEW from, NEW to, WriterGoes(w, from, to)
  PROVE  /\ writer[w].at = from /\ writer'[w].at = to /\ Same(w, w)
         /\ \A v \in Writers \ {w} : writer'[v] = writer[v]
  BY DEF TypeOK, WriterGoes, WriterState, Same

(* The end of write_image.                                                  *)
LEMMA ReturnsIdle ==
  ASSUME TypeOK, NEW w \in Writers, NEW from, WriterReturns(w, from)
  PROVE  /\ writer[w].at = from /\ writer'[w].at = "idle"
         /\ \A v \in Writers \ {w} : writer'[v] = writer[v]
  BY DEF TypeOK, WriterReturns, IdleWriter

(* The loads of m_index and m_frame_counter and the store of m_index.       *)
LEMMA RegisterSame ==
  ASSUME TypeOK, NEW w \in Writers,
         ReloadIndex(w) \/ AdvanceIndex(w) \/ LoadCounter(w)
  PROVE  /\ writer[w].at \in {"reload", "advance", "count"}
         /\ writer'[w].at \in {"advance", "find", "store"} /\ Same(w, w)
         /\ \A v \in Writers \ {w} : writer'[v] = writer[v]
  <1> USE DEF TypeOK, WriterState, Same
  <1>1. CASE ReloadIndex(w)
    BY <1>1 DEF ReloadIndex
  <1>2. CASE AdvanceIndex(w)
    BY <1>2 DEF AdvanceIndex
  <1>3. CASE LoadCounter(w)
    BY <1>3 DEF LoadCounter
  <1> QED
    BY <1>1, <1>2, <1>3

(* The begin of a copy, alone or into the copy of another thread.           *)
LEMMA CopySame ==
  ASSUME TypeOK, NEW w \in Writers, CopyBegins(w)
  PROVE  /\ writer[w].at \in {"find", "lock"}
         /\ \A v \in Writers : Same(v, v)
         /\ IF Copying(writer[w].slot) = {}
              THEN /\ writer'[w].at = "copy"
                   /\ \A v \in Writers \ {w} : writer'[v] = writer[v]
              ELSE /\ writer'[w].at = "mixed"
                   /\ \A v \in Writers \ {w} :
                        IF v \in Copying(writer[w].slot)
                          THEN writer'[v].at = "mixed"
                          ELSE writer'[v] = writer[v]
  <1> USE DEF TypeOK, WriterState, Same
  <1>1. CASE Copying(writer[w].slot) = {}
    BY <1>1 DEF CopyBegins
  <1>2. CASE Copying(writer[w].slot) # {}
    BY <1>2 DEF CopyBegins
  <1> QED
    BY <1>1, <1>2

(* Of the whole of a thread's write: only its begin leaves "idle".         *)
LEMMA WriteSame ==
  ASSUME TypeOK, NEW w \in Writers, WriteImage(w)
  PROVE  /\ writer[w].at # "idle"
         /\ writer'[w].at = "idle" \/ Same(w, w)
         /\ \A v \in Writers \ {w} :
              /\ Same(v, v)
              /\ writer'[v].at = "idle" <=> writer[v].at = "idle"
  <1>1. CASE ReloadIndex(w) \/ AdvanceIndex(w) \/ LoadCounter(w)
    BY <1>1, RegisterSame DEF Same
  <1>2. CASE \E from \in WriterPlace \ {"idle"} :
               \E to : WriterGoes(w, from, to)
    BY <1>2, GoesSame DEF Same
  <1>3. CASE \E from \in WriterPlace \ {"idle"} : WriterReturns(w, from)
    BY <1>3, ReturnsIdle DEF Same
  <1>4. CASE CopyBegins(w)
    BY <1>4, CopySame DEF Same, Copying
  <1> QED
    BY <1>1, <1>2, <1>3, <1>4
       DEF WriteImage, CreateMemory, CreateFails, InsertMemory, LockMemory,
           CopyEnds, StoreCounter, Announce, WriterPlace

(* The begin of write_image.                                                *)
LEMMA BeginSame ==
  ASSUME TypeOK, NEW w \in Writers, LoadIndex(w)
  PROVE  /\ writer[w].at = "idle" /\ writer'[w].at = "reload"
         /\ writer'[w].image \in Image
         /\ \A v \in Writers \ {w} : Same(v, v) /\ writer'[v].at = writer[v].at
  <1> USE DEF TypeOK, WriterState, Same
  <1>1. begun + 1 \in Image
    BY SharedImageAssumption DEF LoadIndex, Image
  <1> QED
    BY <1>1 DEF LoadIndex

(* The places of the threads that write, and the images they write.        *)
LEMMA WriterPlaces ==
  ASSUME TypeOK, Inv, NEW w \in Writers, LoadIndex(w) \/ WriteImage(w)
  PROVE  \A v \in Writers : writer'[v].at # "idle" =>
           writer'[v].image \in Image
  BY BeginSame, WriteSame DEF Inv, Busy, Same

(* As long as no two threads have written at a time, one writes.           *)
LEMMA OneWritesStays ==
  ASSUME TypeOK, Inv, NEW w \in Writers, LoadIndex(w) \/ WriteImage(w)
  PROVE  OneWrites'
  <1> SUFFICES ASSUME ~overlap'
               PROVE  /\ \A u, v \in Writers :
                           writer'[u].at # "idle" /\ writer'[v].at # "idle"
                             => u = v
                      /\ \A v \in Writers : writer'[v].at # "mixed"
    BY DEF OneWrites
  <1>1. CASE LoadIndex(w)
    <2>1. ~overlap /\ \A v \in Writers \ {w} : writer[v].at = "idle"
      BY <1>1 DEF LoadIndex, Others
    <2> QED
      BY <1>1, <2>1, BeginSame
  <1>2. CASE WriteImage(w)
    <2>1. ~overlap
      BY <1>2 DEF WriteImage, ReloadIndex, AdvanceIndex, CreateMemory,
                  CreateFails, InsertMemory, LockMemory, CopyBegins, CopyEnds,
                  LoadCounter, StoreCounter, Announce, historyVars
    <2>2. \A v \in Writers \ {w} : writer[v].at = "idle"
      BY <1>2, <2>1, WriteSame DEF Inv, OneWrites
    <2>3. \A v \in Writers \ {w} : writer'[v].at = "idle"
      BY <1>2, <2>2, WriteSame
    <2>4. writer'[w].at # "mixed"
      <3>1. CASE LockMemory(w)
        <4>1. Copying(writer[w].slot) = {}
          BY <2>2, <3>1, CopySame DEF LockMemory, Copying
        <4> QED
          BY <3>1, <4>1, CopySame DEF LockMemory
      <3>2. CASE ~LockMemory(w)
        BY <1>2, <3>2, RegisterSame, GoesSame, ReturnsIdle
           DEF WriteImage, CreateMemory, CreateFails, InsertMemory, CopyEnds,
               StoreCounter, Announce, WriterPlace
      <3> QED
        BY <3>1, <3>2
    <2> QED
      BY <2>3, <2>4
  <1> QED
    BY <1>1, <1>2

(* A writer's steps that touch neither a segment nor a lock, and leave the *)
(* threads that copy at their copies.                                      *)
LEMMA CopyingStays ==
  ASSUME TypeOK, Inv, NEW w \in Writers, LoadIndex(w) \/ WriteImage(w),
         ~CopyEnds(w)
  PROVE  \A s \in Slot : Copying(s) # {} => Copying(s)' # {}
  <1> SUFFICES ASSUME NEW s \in Slot, NEW v \in Writers,
                      writer[v].at \in {"copy", "mixed"}, writer[v].slot = s
               PROVE  /\ writer'[v].at \in {"copy", "mixed"}
                      /\ writer'[v].slot = s
    BY DEF Copying
  <1>1. CASE LoadIndex(w)
    BY <1>1, BeginSame DEF Same
  <1>2. CASE LockMemory(w)
    BY <1>2, CopySame DEF LockMemory, Same
  <1>3. CASE ~LoadIndex(w) /\ ~LockMemory(w)
    <2>1. /\ writer[w].at \notin {"copy", "mixed"}
          /\ \A u \in Writers \ {w} : writer'[u] = writer[u]
      BY <1>3, RegisterSame, GoesSame, ReturnsIdle
         DEF WriteImage, CreateMemory, CreateFails, InsertMemory, StoreCounter,
             Announce, WriterPlace
    <2> QED
      BY <2>1
  <1> QED
    BY <1>1, <1>2, <1>3

(* What a writer's step makes of half an image: it begins one under its    *)
(* lock, and unlocks the segment when the image is whole.                  *)
LEMMA TornStaysLocked ==
  ASSUME TypeOK, Inv, NEW w \in Writers, LoadIndex(w) \/ WriteImage(w)
  PROVE  TornIsLocked'
  <1> SUFFICES ASSUME ~overlap', NEW s \in Slot, content'[s] = Torn
               PROVE  lock'[s] \in {Server, Lost} \/ attached'[s] = {}
    BY DEF TornIsLocked
  <1> USE DEF serverVars, segmentVars, historyVars
  <1>o. ~overlap
    BY DEF TypeOK, LoadIndex, WriteImage, ReloadIndex, AdvanceIndex,
           CreateMemory, CreateFails, InsertMemory, LockMemory, CopyBegins,
           CopyEnds, LoadCounter, StoreCounter, Announce
  <1>t. content[s] = Torn => lock[s] \in {Server, Lost} \/ attached[s] = {}
    BY <1>o DEF Inv, TornIsLocked
  <1>1. CASE LockMemory(w)
    BY <1>t, <1>1 DEF LockMemory, CopyBegins, TypeOK
  <1>2. CASE CopyEnds(w)
    <2>1. writer[w].at = "copy"
      BY <1>o, <1>2, GoesSame DEF CopyEnds, Inv, OneWrites
    <2>2. content' = [content EXCEPT ![writer[w].slot] = writer[w].image]
      BY <1>2, <2>1 DEF CopyEnds, WriterGoes
    <2>3. writer[w].image # Torn
      BY <2>1, SharedImageAssumption DEF Inv, Busy, Image, Torn
    <2>4. s # writer[w].slot
      BY <2>2, <2>3 DEF TypeOK
    <2> QED
      BY <1>t, <1>2, <2>2, <2>4 DEF CopyEnds, TypeOK
  <1>3. CASE CreateMemory(w)
    <2>1. NoImage # Torn
      BY SharedImageAssumption DEF NoImage, Torn
    <2> QED
      BY <1>t, <1>3, <2>1 DEF CreateMemory, TypeOK
  <1>4. CASE ~LockMemory(w) /\ ~CopyEnds(w) /\ ~CreateMemory(w)
    BY <1>t, <1>4
       DEF LoadIndex, WriteImage, ReloadIndex, AdvanceIndex, CreateFails,
           InsertMemory, LoadCounter, StoreCounter, Announce
  <1> QED
    BY <1>1, <1>2, <1>3, <1>4

(* What a writer's step makes of the locks.                                *)
LEMMA LocksOfWriter ==
  ASSUME TypeOK, Inv, NEW w \in Writers, LoadIndex(w) \/ WriteImage(w)
  PROVE  LockIsReleased'
  <1> SUFFICES ASSUME NEW s \in Slot
               PROVE  \/ lock'[s] \in {Free, Lost}
                      \/ lock'[s] = Server /\ Copying(s)' # {}
                      \/ \E c \in Clients :
                           /\ lock'[s] = c /\ client'[c].at = "read"
                           /\ Meta(c)'.slot = s
    BY DEF LockIsReleased
  <1>l. \/ lock[s] \in {Free, Lost}
        \/ lock[s] = Server /\ Copying(s) # {}
        \/ \E c \in Clients :
             lock[s] = c /\ client[c].at = "read" /\ Meta(c).slot = s
    BY DEF Inv, LockIsReleased
  <1>1. CASE \E c \in Clients :
               lock[s] = c /\ client[c].at = "read" /\ Meta(c).slot = s
    BY <1>1, WriterLeavesClients DEF Meta
  <1>2. CASE lock'[s] = lock[s] /\ ~CopyEnds(w)
    BY <1>l, <1>1, <1>2, CopyingStays
  <1>3. CASE LockMemory(w) /\ s = writer[w].slot
    <2>1. lock'[s] = Server
      BY <1>3 DEF LockMemory, TypeOK
    <2>2. writer'[w].at \in {"copy", "mixed"} /\ writer'[w].slot = s
      BY <1>3, CopySame DEF LockMemory, Same
    <2> QED
      BY <2>1, <2>2 DEF Copying
  <1>4. CASE CopyEnds(w) /\ s = writer[w].slot
    BY <1>l, <1>1, <1>4 DEF CopyEnds, TypeOK, Free, Lost
  <1>5. CASE CopyEnds(w) /\ s # writer[w].slot
    <2>1. lock'[s] = lock[s]
      BY <1>5 DEF CopyEnds, TypeOK
    <2>2. \A v \in Writers \ {w} : writer'[v] = writer[v]
      BY <1>5, GoesSame DEF CopyEnds
    <2>3. Copying(s) # {} => Copying(s)' # {}
      BY <1>5, <2>2 DEF Copying
    <2> QED
      BY <1>l, <1>1, <2>1, <2>3
  <1>6. CASE ~CopyEnds(w) /\ ~(LockMemory(w) /\ s = writer[w].slot)
    <2>1. lock'[s] = lock[s]
      BY <1>6 DEF LoadIndex, WriteImage, ReloadIndex, AdvanceIndex,
                  CreateMemory, CreateFails, InsertMemory, LockMemory,
                  LoadCounter, StoreCounter, Announce, segmentVars, TypeOK
    <2> QED
      BY <1>2, <1>6, <2>1
  <1> QED
    BY <1>3, <1>4, <1>5, <1>6

(* write_image keeps the invariant.                                         *)
LEMMA InvWrite ==
  ASSUME TypeOK, Inv, NEW w \in Writers, LoadIndex(w) \/ WriteImage(w)
  PROVE  Inv'
  <1>1. Busy'
    BY WriterPlaces, WriterLeavesClients DEF Busy
  <1>2. ClientHolds'
    <2> SUFFICES ASSUME NEW c \in Clients, client'[c].at # "idle"
                 PROVE  /\ c \in attached'[Meta(c)'.slot]
                        /\ client'[c].at = "read" => lock'[Meta(c)'.slot] = c
      BY DEF ClientHolds
    <2>1. client' = client /\ Meta(c)' = Meta(c)
      BY WriterLeavesClients DEF Meta
    <2>2. Meta(c).slot \in Slot
      BY <2>1, MetaType DEF Inv
    <2> QED
      BY <2>1, <2>2, WriterLeavesClients DEF Inv, ClientHolds
  <1> QED
    BY <1>1, <1>2, OneWritesStays, TornStaysLocked, LocksOfWriter DEF Inv

-----------------------------------------------------------------------------
(* The clients.                                                            *)

(* A client's step moves that client only.                                  *)
LEMMA ClientMoves ==
  ASSUME TypeOK, NEW c \in Clients
  PROVE  /\ \A from, to : ClientGoes(c, from, to) =>
              /\ client[c].at = from /\ client'[c].at = to
              /\ client'[c].next = client[c].next
              /\ \A d \in Clients \ {c} : client'[d] = client[d]
         /\ \A from : ClientDone(c, from) =>
              /\ client[c].at = from /\ client'[c].at = "idle"
              /\ \A d \in Clients \ {c} : client'[d] = client[d]
  BY DEF TypeOK, ClientGoes, ClientDone, ClientState

\* The clients that still read do so as before.
KeepsReading(D) ==
  \A d \in D : client'[d] = client[d] /\ Meta(d)' = Meta(d)

(* A client that locks a segment finds no half image in it.                *)
LEMMA LockedIsWhole ==
  ASSUME TypeOK, Inv, NEW c \in Clients, client[c].at # "idle", ~overlap,
         lock[Meta(c).slot] \notin {Server, Lost}
  PROVE  content[Meta(c).slot] # Torn
  BY MetaType DEF Inv, ClientHolds, TornIsLocked

(* A client that attaches, or does not, keeps the invariant.                *)
LEMMA InvAttach ==
  ASSUME TypeOK, Inv, NEW c \in Clients,
         SkipImage(c) \/ AttachFails(c) \/ AttachMemory(c)
  PROVE  Inv'
  <1> USE DEF serverVars, segmentVars, historyVars
  <1>s. /\ client[c].at = "idle" /\ client'[c].at \in {"idle", "lock"}
        /\ \A d \in Clients \ {c} : client'[d] = client[d]
        /\ UNCHANGED <<writer, announced, overlap, content, lock>>
    BY ClientMoves DEF SkipImage, AttachFails, AttachMemory, ClientGoes,
                       ClientDone
  <1>m. KeepsReading(Clients \ {c})
    BY <1>s DEF KeepsReading, Meta
  <1>a. client'[c].at = "lock" =>
          /\ Meta(c)' = Meta(c) /\ client'[c].next \in 1 .. Len(announced)
          /\ attached' = [attached EXCEPT ![Meta(c).slot] = @ \cup {c}]
          /\ Meta(c).slot \in Slot /\ attached[Meta(c).slot] # {}
    <2> SUFFICES ASSUME client'[c].at = "lock"
                 PROVE  /\ Meta(c)' = Meta(c)
                        /\ client'[c].next \in 1 .. Len(announced)
                        /\ attached' = [attached EXCEPT
                                         ![Meta(c).slot] = @ \cup {c}]
                        /\ Meta(c).slot \in Slot
                        /\ attached[Meta(c).slot] # {}
      OBVIOUS
    <2>1. AttachMemory(c)
      BY ClientMoves DEF SkipImage, AttachFails
    <2>2. client[c].next \in Nat \ {0} /\ client[c].next <= Len(announced)
      BY <2>1 DEF AttachMemory, TypeOK, ClientState
    <2>3. client[c].next \in 1 .. Len(announced)
      BY <2>2 DEF TypeOK
    <2>4. client'[c].next = client[c].next /\ Meta(c)' = Meta(c)
      BY <1>s, <2>1, ClientMoves DEF AttachMemory, Meta
    <2>5. announced[client[c].next] \in Metadata
      BY <2>3 DEF TypeOK
    <2>6. Meta(c).slot \in Slot
      BY <2>5 DEF Meta, Metadata
    <2> QED
      BY <1>s, <2>1, <2>3, <2>4, <2>6 DEF AttachMemory
  <1>h. \A s \in Slot : /\ attached[s] \subseteq attached'[s]
                        /\ attached[s] = {} => attached'[s] = {}
    BY <1>a DEF TypeOK, SkipImage, AttachFails, AttachMemory
  <1>1. Busy'
    BY <1>s, <1>a DEF Inv, Busy
  <1>2. ClientHolds'
    <2>1. \A d \in Clients \ {c} :
            /\ client'[d].at # "idle" => d \in attached'[Meta(d)'.slot]
            /\ client'[d].at = "read" => lock'[Meta(d)'.slot] = d
      BY <1>s, <1>m, <1>h, MetaType DEF Inv, ClientHolds, KeepsReading
    <2>2. client'[c].at # "idle" => c \in attached'[Meta(c)'.slot]
      BY <1>s, <1>a DEF TypeOK
    <2> QED
      BY <1>s, <2>1, <2>2 DEF ClientHolds
  <1>3. OneWrites' /\ TornIsLocked'
    BY <1>s, <1>h DEF Inv, OneWrites, TornIsLocked
  <1>4. LockIsReleased'
    BY <1>s, <1>m DEF Inv, LockIsReleased, Copying, KeepsReading
  <1> QED
    BY <1>1, <1>2, <1>3, <1>4 DEF Inv

(* A client that locks or unlocks a segment keeps the invariant.            *)
LEMMA InvReadWork ==
  ASSUME TypeOK, Inv, NEW c \in Clients, ReadWork(c)
  PROVE  Inv'
  <1> USE DEF serverVars, segmentVars, historyVars
  <1> DEFINE S == Meta(c).slot
  <1>s. /\ client[c].at \in {"lock", "read"}
        /\ client'[c].at \in {"idle", "read"}
        /\ \A d \in Clients \ {c} : client'[d] = client[d]
        /\ UNCHANGED <<writer, announced, overlap, content, attached>>
    BY ClientMoves DEF ReadWork, ClientLocks, ReadImage, ClientGoes,
                       ClientDone
  <1>m. KeepsReading(Clients \ {c})
    BY <1>s DEF KeepsReading, Meta
  <1>c. client'[c].at = "read" => client'[c].next = client[c].next
    BY ClientMoves DEF ReadWork, ClientLocks, ReadImage
  <1>S. S \in Slot /\ c \in attached[S]
    BY <1>s, MetaType DEF Inv, ClientHolds
  <1>l. /\ lock[S] \in {Free, c}
        /\ \/ lock' = [lock EXCEPT ![S] = c] /\ client'[c].at = "read"
           \/ lock' = [lock EXCEPT ![S] = Free] /\ client'[c].at = "idle"
    BY ClientMoves DEF ReadWork, ClientLocks, ReadImage, Inv, ClientHolds
  <1>f. c \notin {Server, Free, Lost} /\ Free \notin {Server, Lost}
    BY HolderAssumption DEF Server, Free, Lost
  <1>1. Busy'
    BY <1>s, <1>c DEF Inv, Busy
  <1>2. ClientHolds'
    <2>1. ASSUME NEW d \in Clients \ {c}, client'[d].at # "idle"
          PROVE  /\ d \in attached'[Meta(d)'.slot]
                 /\ client'[d].at = "read" => lock'[Meta(d)'.slot] = d
      <3>1. client[d].at # "idle" /\ Meta(d)' = Meta(d)
        BY <1>s, <1>m, <2>1 DEF KeepsReading
      <3>2. d \notin {Free, c} /\ Meta(d).slot \in Slot
        BY <3>1, HolderAssumption, MetaType DEF Inv
      <3> QED
        BY <1>s, <1>l, <3>1, <3>2 DEF Inv, ClientHolds, TypeOK
    <2>2. client'[c].at = "read" => Meta(c)' = Meta(c) /\ lock'[S] = c
      BY <1>s, <1>c, <1>l, <1>S DEF Meta, TypeOK
    <2> QED
      BY <1>s, <1>S, <2>1, <2>2 DEF ClientHolds
  <1>3. OneWrites'
    BY <1>s DEF Inv, OneWrites
  <1>4. TornIsLocked'
    <2>1. overlap \/ content[S] # Torn
      BY <1>s, <1>l, <1>f, LockedIsWhole
    <2>2. \A s \in Slot \ {S} : lock'[s] = lock[s]
      BY <1>l DEF TypeOK
    <2> QED
      BY <1>s, <2>1, <2>2 DEF Inv, TornIsLocked
  <1>5. LockIsReleased'
    <2> SUFFICES ASSUME NEW s \in Slot
                 PROVE  \/ lock'[s] \in {Free, Lost}
                        \/ lock'[s] = Server /\ Copying(s)' # {}
                        \/ \E d \in Clients :
                             /\ lock'[s] = d /\ client'[d].at = "read"
                             /\ Meta(d)'.slot = s
      BY DEF LockIsReleased
    <2>1. CASE s = S
      BY <1>s, <1>c, <1>l, <2>1 DEF Meta, TypeOK
    <2>2. CASE s # S
      <3>1. lock'[s] = lock[s]
        BY <1>l, <2>2 DEF TypeOK
      <3>2. Copying(s)' = Copying(s)
        BY <1>s DEF Copying
      <3> QED
        BY <1>m, <2>2, <3>1, <3>2 DEF Inv, LockIsReleased, KeepsReading
    <2> QED
      BY <2>1, <2>2
  <1> QED
    BY <1>1, <1>2, <1>3, <1>4, <1>5 DEF Inv

-----------------------------------------------------------------------------
(* Deaths.                                                                 *)

(* The end of a process frees no lock under which there is half an image,  *)
(* as long as a client could still attach to the segment.                  *)
LEMMA TornAfterDeath ==
  ASSUME TypeOK, Inv, NEW p \in Holder, Releases(p), UNCHANGED overlap
  PROVE  TornIsLocked'
  <1> SUFFICES ASSUME ~overlap, NEW s \in Slot, content[s] = Torn,
                      lock[s] \in {Server, Lost} \/ attached[s] = {}
               PROVE  lock'[s] \in {Server, Lost} \/ attached'[s] = {}
    BY DEF Inv, TornIsLocked, Releases
  <1>1. attached'[s] = attached[s] \ {p}
    BY DEF Releases
  <1>2. CASE attached[s] \subseteq {p}
    BY <1>1, <1>2
  <1>3. CASE ~(attached[s] \subseteq {p})
    <2>1. lock'[s] = IF lock[s] = p THEN Lost ELSE lock[s]
      BY <1>3 DEF Releases
    <2>2. lock[s] \in {Server, Lost}
      BY <1>3
    <2> QED
      BY <2>1, <2>2
  <1> QED
    BY <1>2, <1>3

(* ... and leaves the locks of those that live as they are.                *)
LEMMA LocksAfterDeath ==
  ASSUME TypeOK, Inv, NEW p \in Holder, Releases(p)
  PROVE  /\ \A c \in Clients \ {p} : client[c].at # "idle" =>
              /\ c \in attached'[Meta(c).slot]
              /\ client[c].at = "read" => lock'[Meta(c).slot] = c
         /\ \A s \in Slot : \/ lock'[s] \in {Free, Lost}
                           \/ /\ lock'[s] = lock[s]
                              /\ lock[s] # p
  <1>1. ASSUME NEW c \in Clients \ {p}, client[c].at # "idle"
        PROVE  /\ c \in attached'[Meta(c).slot]
               /\ client[c].at = "read" => lock'[Meta(c).slot] = c
    <2>1. Meta(c).slot \in Slot /\ c \in attached[Meta(c).slot]
      BY <1>1, MetaType DEF Inv, ClientHolds
    <2>2. client[c].at = "read" => lock[Meta(c).slot] = c
      BY <1>1 DEF Inv, ClientHolds
    <2> QED
      BY <2>1, <2>2 DEF Releases
  <1>2. \A s \in Slot : \/ lock'[s] \in {Free, Lost}
                      \/ /\ lock'[s] = lock[s]
                         /\ lock[s] # p
    <2> TAKE s \in Slot
    <2>1. lock'[s] = IF attached[s] \subseteq {p} THEN Free
                     ELSE IF lock[s] = p THEN Lost ELSE lock[s]
      BY DEF Releases
    <2> QED
      BY <2>1
  <1> QED
    BY <1>1, <1>2

(* The death of the server keeps the invariant.                             *)
LEMMA InvServerDies == ASSUME TypeOK, Inv, ServerDies PROVE Inv'
  <1>p. Server \in Holder /\ Releases(Server) /\ Server \notin Clients
    BY HolderAssumption DEF Holder, ServerDies
  <1>s. /\ client' = client /\ announced' = announced /\ overlap' = overlap
        /\ \A w \in Writers : writer'[w].at = "idle"
    BY DEF ServerDies, IdleWriter
  <1>m. \A c \in Clients : Meta(c)' = Meta(c)
    BY <1>s DEF Meta
  <1>1. Busy'
    BY <1>s DEF Inv, Busy
  <1>2. ClientHolds'
    BY <1>p, <1>s, <1>m, LocksAfterDeath DEF ClientHolds
  <1>3. OneWrites'
    BY <1>s DEF OneWrites
  <1>4. TornIsLocked'
    BY <1>p, <1>s, TornAfterDeath
  <1>5. LockIsReleased'
    BY <1>p, <1>s, <1>m, LocksAfterDeath DEF Inv, LockIsReleased
  <1> QED
    BY <1>1, <1>2, <1>3, <1>4, <1>5 DEF Inv

(* The death of a client keeps the invariant.                               *)
LEMMA InvClientDies ==
  ASSUME TypeOK, Inv, NEW c \in Clients, ClientDies(c) PROVE Inv'
  <1>p. c \in Holder /\ Releases(c)
    BY DEF Holder, ClientDies
  <1>s. /\ client'[c].at = "idle"
        /\ \A d \in Clients \ {c} : client'[d] = client[d]
        /\ UNCHANGED <<writer, announced, overlap>>
    BY DEF ClientDies, TypeOK
  <1>m. \A d \in Clients \ {c} : Meta(d)' = Meta(d)
    BY <1>s DEF Meta
  <1>1. Busy'
    BY <1>s DEF Inv, Busy
  <1>2. ClientHolds'
    BY <1>p, <1>s, <1>m, LocksAfterDeath DEF ClientHolds
  <1>3. OneWrites'
    BY <1>s DEF Inv, OneWrites
  <1>4. TornIsLocked'
    BY <1>p, <1>s, TornAfterDeath
  <1>5. LockIsReleased'
    BY <1>p, <1>s, <1>m, LocksAfterDeath DEF Inv, LockIsReleased, Copying
  <1> QED
    BY <1>1, <1>2, <1>3, <1>4, <1>5 DEF Inv

-----------------------------------------------------------------------------
(* The invariant holds initially.                                           *)
LEMMA InitInv == Init => TypeOK /\ Inv
  <1> SUFFICES ASSUME Init PROVE TypeOK /\ Inv
    OBVIOUS
  <1>1. TypeOK
    <2>1. index \in Slot /\ counter \in Nat
      BY Slots DEF Init
    <2>2. /\ attached \in [Slot -> SUBSET Holder]
          /\ content \in [Slot -> Content]
          /\ lock \in [Slot -> Holder \cup {Free, Lost}]
      BY DEF Init, Content
    <2>3. /\ writer \in [Writers -> WriterState]
          /\ client \in [Clients -> ClientState]
      BY IdleTypes DEF Init
    <2>4. begun \in Nat /\ life \in Nat /\ overlap \in BOOLEAN
      BY DEF Init
    <2>5. <<>> \in Seq(Metadata)
      OBVIOUS
    <2>6. announced \in Seq(Metadata)
      BY <2>5 DEF Init
    <2> QED
      BY <2>1, <2>2, <2>3, <2>4, <2>6 DEF TypeOK
  <1>2. /\ \A w \in Writers : writer[w].at = "idle"
        /\ \A c \in Clients : client[c].at = "idle"
        /\ \A s \in Slot : lock[s] = Free /\ attached[s] = {}
    BY DEF Init, IdleWriter, IdleClient
  <1> QED
    BY <1>1, <1>2 DEF Inv, Busy, ClientHolds, OneWrites, TornIsLocked,
                      LockIsReleased

(* Every step keeps the invariant.                                          *)
LEMMA StepInv == TypeOK /\ Inv /\ [Next]_vars => TypeOK' /\ Inv'
  <1> SUFFICES ASSUME TypeOK, Inv, [Next]_vars PROVE TypeOK' /\ Inv'
    OBVIOUS
  <1>1. ASSUME NEW w \in Writers, LoadIndex(w) \/ WriteImage(w)
        PROVE  TypeOK' /\ Inv'
    BY <1>1, TypeWrite, InvWrite
  <1>2. ASSUME NEW c \in Clients,
               \/ SkipImage(c) \/ AttachMemory(c) \/ AttachFails(c)
               \/ ReadWork(c)
        PROVE  TypeOK' /\ Inv'
    BY <1>2, TypeRead, InvAttach, InvReadWork
  <1>3. CASE ServerDies \/ \E c \in Clients : ClientDies(c)
    BY <1>3, TypeDeath, InvServerDies, InvClientDies
  <1>4. CASE UNCHANGED vars
    BY <1>4 DEF vars, serverVars, segmentVars, historyVars, TypeOK, Inv, Busy,
                ClientHolds, OneWrites, TornIsLocked, LockIsReleased, Copying,
                Meta
  <1> QED
    BY <1>1, <1>2, <1>3, <1>4 DEF Next, Rest

(* Half an image is under a lock, and each lock has a holder that is about *)
(* to unlock it or has died.                                               *)
THEOREM SharedInvariant == Spec => [](TypeOK /\ Inv)
  BY InitInv, StepInv, PTL DEF Spec

(* However many clients read, and whoever dies, no lock is forgotten.      *)
THEOREM LocksAreReleased == Spec => []LockIsReleased
  <1>1. Inv => LockIsReleased
    BY DEF Inv
  <1> QED
    BY <1>1, SharedInvariant, PTL

(* A client copies whole images only, until two threads of the server have *)
(* written at a time, which the lock does not prevent.                     *)
THEOREM ReadsAreWhole == Spec => []NoTornRead
  <1>1. TypeOK /\ Inv => NoTornRead
    <2> SUFFICES ASSUME TypeOK, Inv, NEW c \in Clients,
                        client[c].at = "read", ~overlap
                 PROVE  content[Meta(c).slot] # Torn
      BY DEF NoTornRead
    <2>1. lock[Meta(c).slot] = c /\ c \notin {Server, Lost}
      BY HolderAssumption DEF Inv, ClientHolds
    <2> QED
      BY <2>1, LockedIsWhole
  <1> QED
    BY <1>1, SharedInvariant, PTL

-----------------------------------------------------------------------------
(* Images written alone.                                                   *)

NextOf(s) == (s + 1) % BufferSize
Active(w) == writer[w].at # "idle"

\* While an image is written alone: it is the last one begun, m_index goes from
\* its segment to the next one, and what is copied stays.
AloneInv ==
  \A w \in Writers : Active(w) /\ writer[w].alone =>
    /\ \A v \in Writers : Active(v) => v = w
    /\ writer[w].image = begun
    /\ writer[w].at # "mixed"
    /\ index = IF writer[w].at \in {"reload", "advance"}
                 THEN writer[w].slot ELSE NextOf(writer[w].slot)
    /\ writer[w].at = "advance" => writer[w].reg = writer[w].slot
    /\ writer[w].at \in {"count", "store", "announce"} =>
         content[writer[w].slot] = writer[w].image

\* Until the third write after it begins, no thread has its segment: the write
\* after it moves m_index on by one, and the one after that may race with it.
KeptFor(meta) ==
  /\ content[meta.slot] = meta.image
  /\ \A w \in Writers : Active(w) => writer[w].slot # meta.slot
  /\ begun = meta.image =>
       index = NextOf(meta.slot) /\ \A w \in Writers : ~Active(w)
  /\ begun = meta.image + 1 =>
       /\ index # meta.slot
       /\ \A v, w \in Writers : Active(v) /\ Active(w) => v = w
       /\ \A w \in Writers :
            /\ writer[w].at = "reload" => index = NextOf(meta.slot)
            /\ writer[w].at = "advance" => writer[w].reg = NextOf(meta.slot)

\* m_frame_counter never falls back behind the frame_id of an image written
\* alone, even if increments after it are lost.
CountedFor(meta) ==
  /\ meta.frame_id <= counter
  /\ \A w \in Writers :
       /\ writer[w].at = "store" => meta.frame_id <= writer[w].reg
       /\ writer[w].at = "announce" /\ writer[w].alone =>
            meta.frame_id < counter

KeptInv ==
  \A n \in DOMAIN announced :
    /\ announced[n].life <= life
    /\ announced[n].alone /\ announced[n].life = life =>
         /\ announced[n].image <= begun
         /\ CountedFor(announced[n])
         /\ begun < announced[n].image + BufferSize => KeptFor(announced[n])

AloneImages == AloneInv /\ KeptInv /\ FrameIdsIncrease

(* What a step of write_image does to the other threads: at most, their    *)
(* copy becomes a mixture.                                                  *)
LEMMA StepOthers ==
  ASSUME TypeOK, NEW w \in Writers, WriteImage(w), NEW v \in Writers \ {w}
  PROVE  /\ writer'[v].image = writer[v].image
         /\ writer'[v].slot = writer[v].slot
         /\ writer'[v].reg = writer[v].reg
         /\ writer'[v].alone = writer[v].alone
         /\ \/ writer'[v].at = writer[v].at
            \/ writer'[v].at = "mixed" /\ writer[v].at \in {"copy", "mixed"}
  <1> USE DEF TypeOK, WriterState
  <1>1. CASE ReloadIndex(w) \/ AdvanceIndex(w) \/ LoadCounter(w)
    BY <1>1, RegisterSame
  <1>2. CASE \E from, to : WriterGoes(w, from, to)
    BY <1>2, GoesSame
  <1>3. CASE \E from : WriterReturns(w, from)
    BY <1>3, ReturnsIdle
  <1>4. CASE CopyBegins(w)
    BY <1>4 DEF CopyBegins, Copying
  <1> QED
    BY <1>1, <1>2, <1>3, <1>4
       DEF WriteImage, CreateMemory, CreateFails, InsertMemory, LockMemory,
           CopyEnds, StoreCounter, Announce

(* The steps of write_image, and what each of them changes of what is      *)
(* shared.                                                                  *)
Quiet == UNCHANGED <<index, counter, content, announced>>

Moves(w, from, to) ==
  /\ writer[w].at = from /\ writer'[w].at = to
  /\ writer'[w].image = writer[w].image
  /\ writer'[w].slot = writer[w].slot
  /\ writer'[w].alone = writer[w].alone

Leaves(w, from) ==
  writer[w].at = from /\ writer'[w].at = "idle" /\ ~writer'[w].alone

KeepsOtherSlots(w) ==
  \A s \in Slot \ {writer[w].slot} : content'[s] = content[s]

StepOf(w) ==
  \/ Moves(w, "reload", "advance") /\ writer'[w].reg = index /\ Quiet
  \/ /\ Moves(w, "advance", "find") /\ index' = NextOf(writer[w].reg)
     /\ UNCHANGED <<counter, content, announced>>
  \/ /\ Moves(w, "find", "insert") /\ KeepsOtherSlots(w)
     /\ UNCHANGED <<index, counter, announced>>
  \/ Leaves(w, "find") /\ Quiet
  \/ Moves(w, "insert", "lock") /\ Quiet
  \/ /\ \E from \in {"find", "lock"} :
          \/ Moves(w, from, "copy")
          \/ Moves(w, from, "mixed") /\ \E v \in Writers \ {w} : Active(v)
     /\ KeepsOtherSlots(w)
     /\ UNCHANGED <<index, counter, announced>>
  \/ /\ Moves(w, "copy", "count") /\ KeepsOtherSlots(w)
     /\ content'[writer[w].slot] = writer[w].image
     /\ UNCHANGED <<index, counter, announced>>
  \/ /\ Moves(w, "mixed", "count") /\ KeepsOtherSlots(w)
     /\ UNCHANGED <<index, counter, announced>>
  \/ Moves(w, "count", "store") /\ writer'[w].reg = counter /\ Quiet
  \/ /\ Moves(w, "store", "announce") /\ counter' = writer[w].reg + 1
     /\ UNCHANGED <<index, content, announced>>
  \/ /\ Leaves(w, "announce")
     /\ announced' = Append(announced,
          [image |-> writer[w].image, slot |-> writer[w].slot,
           frame_id |-> counter, alone |-> writer[w].alone, life |-> life])
     /\ UNCHANGED <<index, counter, content>>

\* A writer that goes on changes nothing but where it is,
LEMMA GoesMoves ==
  ASSUME TypeOK, NEW w \in Writers, NEW from, NEW to, WriterGoes(w, from, to)
  PROVE  Moves(w, from, to)
  BY DEF TypeOK, WriterState, WriterGoes, Moves

\* and one that returns only that it is idle.
LEMMA ReturnsLeaves ==
  ASSUME TypeOK, NEW w \in Writers, NEW from, WriterReturns(w, from)
  PROVE  Leaves(w, from)
  BY DEF TypeOK, WriterState, WriterReturns, Leaves, IdleWriter

\* Each step of write_image is one of those of StepOf.
LEMMA WriteSteps ==
  ASSUME TypeOK, NEW w \in Writers, WriteImage(w)
  PROVE  StepOf(w) /\ UNCHANGED <<begun, life>>
  <1> USE DEF serverVars, segmentVars, historyVars
  <1>1. UNCHANGED <<begun, life>>
    BY DEF WriteImage, ReloadIndex, AdvanceIndex, CreateMemory, CreateFails,
           InsertMemory, LockMemory, CopyBegins, CopyEnds, LoadCounter,
           StoreCounter, Announce
  <1>2. writer[w].slot \in Slot /\ content \in [Slot -> Content]
    BY DEF TypeOK, WriterState
  <1>3. CASE ReloadIndex(w)
    <2>1. Moves(w, "reload", "advance") /\ writer'[w].reg = index
      BY <1>3 DEF TypeOK, WriterState, ReloadIndex, Moves
    <2>2. Quiet
      BY <1>3 DEF ReloadIndex, Quiet
    <2> QED BY <1>1, <2>1, <2>2 DEF StepOf
  <1>4. CASE AdvanceIndex(w)
    <2>1. Moves(w, "advance", "find")
      BY <1>4 DEF TypeOK, WriterState, AdvanceIndex, Moves
    <2>2. /\ index' = NextOf(writer[w].reg)
          /\ UNCHANGED <<counter, content, announced>>
      BY <1>4 DEF AdvanceIndex, NextOf
    <2> QED BY <1>1, <2>1, <2>2 DEF StepOf
  <1>5. CASE CreateMemory(w)
    <2>1. Moves(w, "find", "insert")
      BY <1>5, GoesMoves DEF CreateMemory
    <2>2. KeepsOtherSlots(w) /\ UNCHANGED <<index, counter, announced>>
      BY <1>2, <1>5 DEF CreateMemory, KeepsOtherSlots
    <2> QED BY <1>1, <2>1, <2>2 DEF StepOf
  <1>6. CASE CreateFails(w)
    <2>1. Leaves(w, "find")
      BY <1>6, ReturnsLeaves DEF CreateFails
    <2>2. Quiet
      BY <1>6 DEF CreateFails, Quiet
    <2> QED BY <1>1, <2>1, <2>2 DEF StepOf
  <1>7. CASE InsertMemory(w)
    <2>1. Moves(w, "insert", "lock")
      BY <1>7, GoesMoves DEF InsertMemory
    <2>2. Quiet
      BY <1>7 DEF InsertMemory, Quiet
    <2> QED BY <1>1, <2>1, <2>2 DEF StepOf
  <1>8. CASE LockMemory(w)
    <2>1. PICK from \in {"find", "lock"} : writer[w].at = from
      BY <1>8 DEF LockMemory, CopyBegins
    <2>3. Moves(w, from, "copy") \/ (Moves(w, from, "mixed")
            /\ \E v \in Writers \ {w} : Active(v))
      <3>1. CASE Copying(writer[w].slot) = {}
        BY <1>8, <2>1, <3>1
        DEF TypeOK, WriterState, LockMemory, CopyBegins, Moves
      <3>2. CASE Copying(writer[w].slot) # {}
        <4>1. Moves(w, from, "mixed")
          BY <1>8, <2>1, <3>2
          DEF TypeOK, WriterState, LockMemory, CopyBegins, Moves
        <4>2. \E v \in Writers \ {w} : Active(v)
          BY <2>1, <3>2 DEF Copying, Active
        <4> QED BY <4>1, <4>2
      <3> QED BY <3>1, <3>2
    <2>4. KeepsOtherSlots(w) /\ UNCHANGED <<index, counter, announced>>
      BY <1>2, <1>8 DEF LockMemory, CopyBegins, KeepsOtherSlots
    <2> QED BY <1>1, <2>3, <2>4 DEF StepOf
  <1>9. CASE CopyEnds(w)
    <2>1. KeepsOtherSlots(w) /\ UNCHANGED <<index, counter, announced>>
      BY <1>2, <1>9 DEF CopyEnds, KeepsOtherSlots
    <2>2. \/ /\ Moves(w, "copy", "count")
             /\ content'[writer[w].slot] = writer[w].image
          \/ Moves(w, "mixed", "count")
      BY <1>2, <1>9, GoesMoves DEF CopyEnds
    <2> QED BY <1>1, <2>1, <2>2 DEF StepOf
  <1>10. CASE LoadCounter(w)
    <2>1. Moves(w, "count", "store") /\ writer'[w].reg = counter
      BY <1>10 DEF TypeOK, WriterState, LoadCounter, Moves
    <2>2. Quiet
      BY <1>10 DEF LoadCounter, Quiet
    <2> QED BY <1>1, <2>1, <2>2 DEF StepOf
  <1>11. CASE StoreCounter(w)
    <2>1. Moves(w, "store", "announce")
      BY <1>11, GoesMoves DEF StoreCounter
    <2> QED BY <1>1, <1>11, <2>1 DEF StepOf, StoreCounter
  <1>12. CASE Announce(w)
    <2>1. Leaves(w, "announce")
      BY <1>12, ReturnsLeaves DEF Announce
    <2> QED BY <1>1, <1>12, <2>1 DEF StepOf, Announce
  <1> QED
    BY <1>1, <1>3, <1>4, <1>5, <1>6, <1>7, <1>8, <1>9, <1>10, <1>11, <1>12
       DEF WriteImage

(* Around the ring: neither the next segment nor the one after it is this  *)
(* one.                                                                     *)
LEMMA AroundTheRing ==
  ASSUME NEW s \in Slot
  PROVE  NextOf(s) \in Slot /\ NextOf(s) # s /\ NextOf(NextOf(s)) # s
  <1>1. CASE s = 0
    BY <1>1, Slots DEF NextOf
  <1>2. CASE s = 1
    BY <1>2, Slots DEF NextOf
  <1>3. CASE s = 2
    BY <1>3, Slots DEF NextOf
  <1> QED BY <1>1, <1>2, <1>3, Slots

\* A writer that is alone stays so while it writes,
LEMMA AloneWrite ==
  ASSUME TypeOK, AloneInv, NEW w \in Writers, WriteImage(w)
  PROVE  AloneInv'
  <1> SUFFICES ASSUME NEW v \in Writers, Active(v)', writer'[v].alone
               PROVE  /\ \A u \in Writers : Active(u)' => u = v
                      /\ writer'[v].image = begun'
                      /\ writer'[v].at # "mixed"
                      /\ index' = IF writer'[v].at \in {"reload", "advance"}
                                    THEN writer'[v].slot
                                    ELSE NextOf(writer'[v].slot)
                      /\ writer'[v].at = "advance" =>
                           writer'[v].reg = writer'[v].slot
                      /\ writer'[v].at \in {"count", "store", "announce"} =>
                           content'[writer'[v].slot] = writer'[v].image
      BY DEF AloneInv
  <1>1. StepOf(w) /\ UNCHANGED <<begun, life>> /\ Active(w)
    BY WriteSteps, WriteSame DEF Active
  <1>2. \A u \in Writers \ {w} : Active(u)' <=> Active(u)
    BY WriteSame DEF Active
  <1>3. v = w
    <2> SUFFICES ASSUME v # w PROVE FALSE
      OBVIOUS
    <2>1. Active(v) /\ writer[v].alone
      BY <1>2, StepOthers
    <2> QED BY <1>1, <2>1 DEF AloneInv
  <1>4. /\ writer[w].alone /\ writer'[w].alone
        /\ writer'[w].slot = writer[w].slot
        /\ writer'[w].image = writer[w].image
    BY <1>1, <1>3 DEF StepOf, Moves, Leaves
  <1>5. /\ \A u \in Writers : Active(u) => u = w
        /\ writer[w].image = begun
        /\ writer[w].at # "mixed"
        /\ index = IF writer[w].at \in {"reload", "advance"}
                     THEN writer[w].slot ELSE NextOf(writer[w].slot)
        /\ writer[w].at = "advance" => writer[w].reg = writer[w].slot
        /\ writer[w].at \in {"count", "store", "announce"} =>
             content[writer[w].slot] = writer[w].image
    BY <1>1, <1>4 DEF AloneInv
  <1>6. \A u \in Writers : Active(u)' => u = w
    BY <1>2, <1>5
  <1>7. writer'[w].at # "mixed"
    BY <1>1, <1>5 DEF StepOf, Moves, Leaves
  <1>8. /\ index' = IF writer'[w].at \in {"reload", "advance"}
                      THEN writer'[w].slot ELSE NextOf(writer'[w].slot)
        /\ writer'[w].at = "advance" => writer'[w].reg = writer'[w].slot
        /\ writer'[w].at \in {"count", "store", "announce"} =>
             content'[writer'[w].slot] = writer'[w].image
    BY <1>1, <1>3, <1>4, <1>5 DEF StepOf, Moves, Leaves, Quiet, Active
  <1> QED BY <1>1, <1>3, <1>4, <1>5, <1>6, <1>7, <1>8

(* What LoadIndex does.                                                     *)
LEMMA Begins ==
  ASSUME TypeOK, NEW w \in Writers, LoadIndex(w)
  PROVE  /\ ~Active(w) /\ begun \in Nat /\ begun' = begun + 1
         /\ writer'[w].at = "reload" /\ writer'[w].image = begun + 1
         /\ writer'[w].slot = index
         /\ writer'[w].alone <=> \A v \in Writers \ {w} : ~Active(v)
         /\ \A v \in Writers \ {w} :
              /\ writer'[v].at = writer[v].at
              /\ writer'[v].slot = writer[v].slot
              /\ writer'[v].reg = writer[v].reg
              /\ ~writer'[v].alone
         /\ UNCHANGED <<index, counter, content, announced, life>>
  BY DEF TypeOK, WriterState, LoadIndex, Active, Others, serverVars,
         segmentVars

\* and none is any more when another begins.
LEMMA AloneBegin ==
  ASSUME TypeOK, AloneInv, NEW w \in Writers, LoadIndex(w)
  PROVE  AloneInv'
  <1>1. ASSUME NEW v \in Writers, writer'[v].alone
        PROVE  v = w /\ \A u \in Writers : Active(u)' => u = w
    BY <1>1, Begins DEF Active
  <1> QED BY <1>1, Begins DEF AloneInv, Active

(* The metadata of an image.                                                *)
LEMMA MetaTypes ==
  ASSUME TypeOK, NEW n \in DOMAIN announced
  PROVE  /\ announced[n].slot \in Slot /\ announced[n].frame_id \in Nat
         /\ announced[n].image \in Nat /\ announced[n].life \in Nat
         /\ announced[n].alone \in BOOLEAN
  <1>1. announced[n] \in Metadata
    BY DEF TypeOK
  <1>2. 0 .. MaxImages \subseteq Nat
    BY SharedImageAssumption
  <1> QED BY <1>1, <1>2 DEF Metadata

\* A step of write_image leaves the image of an announcement in its slot,
LEMMA KeptWrite ==
  ASSUME TypeOK, NEW w \in Writers, WriteImage(w), NEW meta \in Metadata,
         KeptFor(meta)
  PROVE  KeptFor(meta)'
  <1>1. StepOf(w) /\ UNCHANGED <<begun, life>> /\ Active(w)
    BY WriteSteps, WriteSame DEF Active
  <1>2. \A v \in Writers : Active(v)'
        => Active(v) /\ writer'[v].slot = writer[v].slot
    BY <1>1, WriteSame DEF Active, Same
  <1>3. meta.slot \in Slot /\ writer[w].slot # meta.slot
    BY <1>1 DEF KeptFor, Metadata
  <1>4. content'[meta.slot] = content[meta.slot]
    BY <1>1, <1>3 DEF StepOf, Quiet, KeepsOtherSlots
  <1>5. begun # meta.image
    BY <1>1 DEF KeptFor
  <1>6. ASSUME begun = meta.image + 1
        PROVE  /\ index' # meta.slot
               /\ \A v \in Writers :
                    /\ writer'[v].at = "reload" => index' = NextOf(meta.slot)
                    /\ writer'[v].at = "advance" =>
                         writer'[v].reg = NextOf(meta.slot)
    <2>1. /\ index # meta.slot
          /\ \A v \in Writers : Active(v) => v = w
          /\ writer[w].at = "reload" => index = NextOf(meta.slot)
          /\ writer[w].at = "advance" => writer[w].reg = NextOf(meta.slot)
      BY <1>1, <1>6 DEF KeptFor
    <2>2. \A v \in Writers \ {w} : ~Active(v)'
      BY <1>2, <2>1
    <2>3. /\ index' # meta.slot
          /\ writer'[w].at # "reload"
          /\ writer'[w].at = "advance" => writer'[w].reg = NextOf(meta.slot)
      BY <1>1, <1>3, <2>1, AroundTheRing DEF StepOf, Moves, Leaves, Quiet
    <2> QED BY <2>2, <2>3 DEF Active
  <1>7. begun = meta.image + 1 =>
          \A u, v \in Writers : Active(u)' /\ Active(v)' => u = v
    BY <1>2 DEF KeptFor
  <1>8. content'[meta.slot] = meta.image
        /\ \A v \in Writers : Active(v)' => writer'[v].slot # meta.slot
    BY <1>2, <1>4 DEF KeptFor
  <1> QED BY <1>1, <1>5, <1>6, <1>7, <1>8 DEF KeptFor

\* and so does a writer that begins, until the buffer has come round.
LEMMA KeptBegin ==
  ASSUME TypeOK, NEW w \in Writers, LoadIndex(w), NEW meta \in Metadata,
         meta.image <= begun, begun' < meta.image + BufferSize, KeptFor(meta)
  PROVE  KeptFor(meta)'
  <1>1. meta.slot \in Slot /\ meta.image \in Nat
    BY SharedImageAssumption DEF Metadata
  <1>2. begun' = begun + 1 /\ begun \in Nat
        /\ (begun = meta.image \/ begun = meta.image + 1)
    BY <1>1, Begins, Slots
  <1>3. CASE begun = meta.image
    <2>1. index = NextOf(meta.slot) /\ \A v \in Writers : ~Active(v)
          /\ content[meta.slot] = meta.image
      BY <1>3 DEF KeptFor
    <2>2. \A v \in Writers : Active(v)' => v = w
      BY <2>1, Begins DEF Active
    <2>3. begun' = meta.image + 1 /\ begun' # meta.image
      BY <1>1, <1>2, <1>3
    <2> QED BY <1>1, <2>1, <2>2, <2>3, AroundTheRing, Begins
          DEF KeptFor, Active
  <1>4. CASE begun = meta.image + 1
    <2>1. begun' # meta.image /\ begun' # meta.image + 1
      BY <1>1, <1>2, <1>4
    <2> QED BY <1>4, <2>1, Begins DEF KeptFor, Active
  <1> QED BY <1>2, <1>3, <1>4

\* The counter has passed the announced id, and goes on from there,
LEMMA CountedWrite ==
  ASSUME TypeOK, AloneInv, NEW w \in Writers, WriteImage(w),
         NEW meta \in Metadata, CountedFor(meta)
  PROVE  CountedFor(meta)'
  <1>1. StepOf(w) /\ Active(w)
    BY WriteSteps, WriteSame DEF Active
  <1>2. meta.frame_id \in Nat /\ counter \in Nat /\ writer[w].reg \in Nat
    BY DEF Metadata, TypeOK, WriterState
  <1>3. /\ meta.frame_id <= counter
        /\ writer[w].at = "store" => meta.frame_id <= writer[w].reg
        /\ writer[w].at = "announce" /\ writer[w].alone
             => meta.frame_id < counter
    BY DEF CountedFor
  <1>4. /\ meta.frame_id <= counter'
        /\ writer'[w].at = "store" => meta.frame_id <= writer'[w].reg
        /\ writer'[w].at = "announce" /\ writer'[w].alone =>
             meta.frame_id < counter'
    BY <1>1, <1>2, <1>3 DEF StepOf, Moves, Leaves, Quiet
  <1>5. ASSUME NEW v \in Writers \ {w}
        PROVE  /\ writer'[v].at = "store" => meta.frame_id <= writer'[v].reg
               /\ ~(writer'[v].at = "announce" /\ writer'[v].alone)
    <2>1. writer'[v].at = "store" => meta.frame_id <= writer'[v].reg
      BY StepOthers DEF CountedFor
    <2>2. writer'[v].at = "announce" /\ writer'[v].alone =>
            Active(v) /\ writer[v].alone
      BY StepOthers DEF Active
    <2> QED BY <1>1, <2>1, <2>2 DEF AloneInv
  <1> QED BY <1>4, <1>5 DEF CountedFor

\* whoever begins.
LEMMA CountedBegin ==
  ASSUME TypeOK, NEW w \in Writers, LoadIndex(w), NEW meta \in Metadata,
         CountedFor(meta)
  PROVE  CountedFor(meta)'
  BY Begins DEF CountedFor

(* The announcement of an image written alone.                             *)
LEMMA AnnouncedAlone ==
  ASSUME TypeOK, AloneInv, NEW w \in Writers, WriteImage(w),
         writer[w].at = "announce", writer[w].alone,
         NEW meta \in Metadata, meta.image = writer[w].image,
         meta.slot = writer[w].slot, meta.frame_id = counter
  PROVE  CountedFor(meta)' /\ KeptFor(meta)'
  <1>1. StepOf(w) /\ UNCHANGED begun /\ Active(w)
    BY WriteSteps, WriteSame DEF Active
  <1>2. /\ writer'[w].at = "idle"
        /\ UNCHANGED <<index, counter, content>>
    BY <1>1 DEF StepOf, Moves, Leaves, Quiet
  <1>3. /\ \A v \in Writers : Active(v) => v = w
        /\ meta.image = begun /\ index = NextOf(meta.slot)
        /\ content[meta.slot] = meta.image
    BY <1>1 DEF AloneInv
  <1>4. \A v \in Writers : ~Active(v)'
    BY <1>2, <1>3, WriteSame DEF Active
  <1>5. counter \in Nat /\ begun \in Nat
    BY DEF TypeOK
  <1>6. CountedFor(meta)'
    BY <1>2, <1>4, <1>5 DEF CountedFor, Active
  <1>7. KeptFor(meta)'
    BY <1>1, <1>2, <1>3, <1>4, <1>5 DEF KeptFor
  <1> QED BY <1>6, <1>7

(* What has been announced is what it was, but for what is announced now.  *)
LEMMA Announcing ==
  ASSUME TypeOK, NEW w \in Writers, WriteImage(w), NEW n \in DOMAIN announced'
  PROVE  /\ announced'[n] \in Metadata
         /\ \/ n \in DOMAIN announced /\ announced'[n] = announced[n]
            \/ /\ writer[w].at = "announce"
               /\ n = Len(announced) + 1
               /\ announced'[n].image = writer[w].image
               /\ announced'[n].slot = writer[w].slot
               /\ announced'[n].frame_id = counter
               /\ announced'[n].alone = writer[w].alone
               /\ announced'[n].life = life
  <1> DEFINE m == [image |-> writer[w].image, slot |-> writer[w].slot,
                   frame_id |-> counter, alone |-> writer[w].alone,
                   life |-> life]
  <1>1. StepOf(w)
    BY WriteSteps
  <1>2. m \in Metadata
    BY DEF TypeOK, Metadata, WriterState
  <1>3. announced \in Seq(Metadata)
    BY DEF TypeOK
  <1>4. \/ announced' = announced
        \/ writer[w].at = "announce" /\ announced' = Append(announced, m)
    BY <1>1 DEF StepOf, Leaves, Quiet
  <1>5. CASE announced' = announced
    BY <1>3, <1>5
  <1>6. CASE writer[w].at = "announce" /\ announced' = Append(announced, m)
    <2> DEFINE a == Append(announced, m)
    <2>1. /\ DOMAIN a = 1 .. Len(announced) + 1
          /\ DOMAIN announced = 1 .. Len(announced) /\ Len(announced) \in Nat
          /\ \A k \in DOMAIN announced :
               a[k] = announced[k] /\ announced[k] \in Metadata
          /\ a[Len(announced) + 1] = m
      BY <1>2, <1>3
    <2> HIDE DEF a
    <2>2. announced' = a /\ n \in DOMAIN a
      BY <1>6 DEF a
    <2>3. n \in DOMAIN announced \/ n = Len(announced) + 1
      BY <2>1, <2>2
    <2>4. CASE n \in DOMAIN announced
      BY <2>1, <2>2, <2>4
    <2>5. CASE n = Len(announced) + 1
      <3>1. announced'[n] = m
        BY <2>1, <2>2, <2>5
      <3> QED BY <1>2, <1>6, <2>5, <3>1
    <2> QED BY <2>3, <2>4, <2>5
  <1> QED BY <1>4, <1>5, <1>6

\* A step of write_image keeps what is announced, and the order of the ids.
LEMMA KeptInvWrite ==
  ASSUME TypeOK, AloneImages, NEW w \in Writers, WriteImage(w)
  PROVE  KeptInv' /\ FrameIdsIncrease'
  <1>1. UNCHANGED <<begun, life>> /\ begun \in Nat /\ life \in Nat
    BY WriteSteps DEF TypeOK
  <1>2. ASSUME NEW n \in DOMAIN announced'
        PROVE  /\ announced'[n].life <= life'
               /\ announced'[n].alone /\ announced'[n].life = life' =>
                    /\ announced'[n].image <= begun'
                    /\ CountedFor(announced[n])'
                    /\ begun' < announced'[n].image + BufferSize =>
                         KeptFor(announced[n])'
    <2>1. PICK meta \in Metadata : meta = announced'[n]
      BY Announcing
    <2>2. CASE n \in DOMAIN announced /\ announced'[n] = announced[n]
      <3>1. /\ meta.life <= life
            /\ meta.alone /\ meta.life = life =>
                 /\ meta.image <= begun
                 /\ CountedFor(meta)
                 /\ begun < meta.image + BufferSize => KeptFor(meta)
        BY <2>1, <2>2 DEF AloneImages, KeptInv
      <3>2. CountedFor(meta) => CountedFor(meta)'
        BY CountedWrite DEF AloneImages
      <3>3. KeptFor(meta) => KeptFor(meta)'
        BY KeptWrite
      <3>4. /\ CountedFor(meta)' => CountedFor(announced[n])'
            /\ KeptFor(meta)' => KeptFor(announced[n])'
        BY <2>1 DEF CountedFor, KeptFor
      <3> QED BY <1>1, <2>1, <3>1, <3>2, <3>3, <3>4
    <2>3. CASE /\ writer[w].at = "announce"
               /\ meta.image = writer[w].image /\ meta.slot = writer[w].slot
               /\ meta.frame_id = counter /\ meta.alone = writer[w].alone
               /\ meta.life = life
      <3>1. CASE ~meta.alone
        BY <1>1, <2>1, <2>3, <3>1
      <3>2. CASE meta.alone
        <4>1. CountedFor(meta)' /\ KeptFor(meta)'
          BY <2>3, <3>2, AnnouncedAlone DEF AloneImages
        <4>2. meta.image = begun
          BY <2>3, <3>2 DEF AloneImages, AloneInv, Active
        <4>3. /\ CountedFor(meta)' => CountedFor(announced[n])'
              /\ KeptFor(meta)' => KeptFor(announced[n])'
          BY <2>1 DEF CountedFor, KeptFor
        <4> QED BY <1>1, <2>1, <2>3, <4>1, <4>2, <4>3
      <3> QED BY <3>1, <3>2
    <2> QED BY <2>1, <2>2, <2>3, Announcing
  <1>3. ASSUME NEW m \in DOMAIN announced', NEW n \in DOMAIN announced', m < n,
               announced'[m].life = announced'[n].life,
               announced'[m].alone, announced'[n].alone
        PROVE  announced'[m].frame_id < announced'[n].frame_id
    <2>1. DOMAIN announced = 1 .. Len(announced) /\ Len(announced) \in Nat
      BY DEF TypeOK
    <2>2. m \in DOMAIN announced /\ announced'[m] = announced[m]
      <3>1. m # Len(announced) + 1
        <4>1. n \in DOMAIN announced \/ n = Len(announced) + 1
          BY Announcing
        <4> QED BY <1>3, <2>1, <4>1
      <3> QED BY <3>1, Announcing
    <2>3. CASE n \in DOMAIN announced /\ announced'[n] = announced[n]
      BY <1>3, <2>2, <2>3 DEF AloneImages, FrameIdsIncrease
    <2>4. CASE /\ writer[w].at = "announce" /\ announced'[n].frame_id = counter
               /\ announced'[n].alone = writer[w].alone
               /\ announced'[n].life = life
      <3>1. CountedFor(announced[m])
        BY <1>3, <2>2, <2>4 DEF AloneImages, KeptInv
      <3> QED BY <1>3, <2>2, <2>4, <3>1 DEF CountedFor
    <2> QED BY <2>3, <2>4, Announcing
  <1> QED BY <1>2, <1>3 DEF KeptInv, FrameIdsIncrease

\* So does a writer that begins.
LEMMA AloneImagesBegin ==
  ASSUME TypeOK, AloneImages, NEW w \in Writers, LoadIndex(w)
  PROVE  AloneImages'
  <1>1. AloneInv'
    BY AloneBegin DEF AloneImages
  <1>2. /\ UNCHANGED <<announced, life>> /\ begun \in Nat /\ begun' = begun + 1
        /\ FrameIdsIncrease'
    BY Begins DEF AloneImages, FrameIdsIncrease
  <1>3. ASSUME NEW n \in DOMAIN announced
        PROVE  /\ announced'[n].life <= life'
               /\ announced'[n].alone /\ announced'[n].life = life' =>
                    /\ announced'[n].image <= begun'
                    /\ CountedFor(announced[n])'
                    /\ begun' < announced'[n].image + BufferSize =>
                         KeptFor(announced[n])'
    <2>1. PICK meta \in Metadata : meta = announced[n]
      BY DEF TypeOK
    <2>2. /\ meta.life <= life
          /\ meta.alone /\ meta.life = life =>
               /\ meta.image <= begun
               /\ CountedFor(meta)
               /\ begun < meta.image + BufferSize => KeptFor(meta)
      BY <2>1 DEF AloneImages, KeptInv
    <2>3. meta.image \in Nat
      BY <2>1, MetaTypes
    <2>4. ASSUME meta.alone, meta.life = life
          PROVE  /\ meta.image <= begun' /\ CountedFor(meta)'
                 /\ begun' < meta.image + BufferSize => KeptFor(meta)'
      <3>1. meta.image <= begun' /\ CountedFor(meta)'
        BY <1>2, <2>2, <2>3, <2>4, CountedBegin
      <3>2. ASSUME begun' < meta.image + BufferSize PROVE KeptFor(meta)'
        <4>1. begun < meta.image + BufferSize
          BY <1>2, <2>3, <3>2, Slots
        <4> QED BY <2>2, <2>4, <3>2, <4>1, KeptBegin
      <3> QED BY <3>1, <3>2
    <2>5. /\ CountedFor(meta)' => CountedFor(announced[n])'
          /\ KeptFor(meta)' => KeptFor(announced[n])'
      BY <1>2, <2>1 DEF CountedFor, KeptFor
    <2> QED BY <1>2, <2>1, <2>2, <2>4, <2>5
  <1> QED BY <1>1, <1>2, <1>3 DEF AloneImages, KeptInv

(* Clients, and their ends, change nothing of this.                        *)
LEMMA AloneImagesRead ==
  ASSUME TypeOK, AloneImages,
         UNCHANGED <<index, counter, content, writer, begun, announced, life>>
  PROVE  AloneImages'
  BY DEF AloneImages, AloneInv, KeptInv, CountedFor, KeptFor, FrameIdsIncrease,
         Active

(* Nothing is promised of the images of an earlier life of the server.     *)
LEMMA AloneImagesDeath ==
  ASSUME TypeOK, AloneImages, ServerDies
  PROVE  AloneImages'
  <1>1. \A w \in Writers : ~Active(w)'
    BY DEF ServerDies, Active, IdleWriter
  <1>2. UNCHANGED announced /\ life' = life + 1 /\ life \in Nat
    BY DEF ServerDies, TypeOK
  <1>3. \A n \in DOMAIN announced :
          announced[n].life <= life' /\ announced[n].life # life'
    BY <1>2, MetaTypes DEF AloneImages, KeptInv
  <1> QED
    BY <1>1, <1>2, <1>3 DEF AloneImages, AloneInv, KeptInv, FrameIdsIncrease

\* Every step keeps the invariant.
LEMMA AloneImagesStep ==
  TypeOK /\ AloneImages /\ [Next]_vars => AloneImages'
  <1> SUFFICES ASSUME TypeOK, AloneImages, [Next]_vars PROVE AloneImages'
    OBVIOUS
  <1> USE DEF serverVars, segmentVars, historyVars
  <1>1. ASSUME NEW w \in Writers, LoadIndex(w) PROVE AloneImages'
    BY <1>1, AloneImagesBegin
  <1>2. ASSUME NEW w \in Writers, WriteImage(w) PROVE AloneImages'
    BY <1>2, AloneWrite, KeptInvWrite DEF AloneImages
  <1>3. ASSUME NEW c \in Clients,
               \/ SkipImage(c) \/ AttachMemory(c) \/ AttachFails(c)
               \/ ReadWork(c) \/ ClientDies(c)
        PROVE  AloneImages'
    <2>1. UNCHANGED <<index, counter, content, writer, begun, announced, life>>
      BY <1>3 DEF SkipImage, AttachMemory, AttachFails, ReadWork, ClientLocks,
         ReadImage, ClientDies, Releases, ClientGoes, ClientDone
    <2> QED BY <2>1, AloneImagesRead
  <1>4. CASE ServerDies
    BY <1>4, AloneImagesDeath
  <1>5. CASE Rest \/ UNCHANGED vars
    BY <1>5, AloneImagesRead DEF Rest, vars
  <1> QED BY <1>1, <1>2, <1>3, <1>4, <1>5 DEF Next

\* The server starts with it.
LEMMA AloneImagesInit == Init => AloneImages
  BY DEF Init, AloneImages, AloneInv, KeptInv, FrameIdsIncrease, Active,
         IdleWriter

(* The inductive invariant about images written alone: who writes alone is *)
(* the only one, each announced image is safe until m_index has come round *)
(* to its segment, and no increment of the counter is below its frame_id.  *)
THEOREM AloneImagesHold == Spec => []AloneImages
  <1>1. Spec => []TypeOK
    BY SharedInvariant, PTL
  <1> QED BY <1>1, AloneImagesInit, AloneImagesStep, PTL DEF Spec

(* An image written alone stays whole until the third write after it       *)
(* begins, however those in between race for m_index.                      *)
THEOREM ImagesSurvive == Spec => []SurvivesTwoWrites
  <1>1. AloneImages => SurvivesTwoWrites
    BY DEF AloneImages, KeptInv, KeptFor, SurvivesTwoWrites
  <1> QED BY <1>1, AloneImagesHold, PTL

(* Of two images written alone in one life of the server, the later has    *)
(* the greater frame_id, even if increments in between are lost.           *)
THEOREM FrameIdsGrow == Spec => []FrameIdsIncrease
  <1>1. AloneImages => FrameIdsIncrease
    BY DEF AloneImages
  <1> QED BY <1>1, AloneImagesHold, PTL
=============================================================================
