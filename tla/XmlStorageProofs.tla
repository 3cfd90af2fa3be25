-------------------------- MODULE XmlStorageProofs --------------------------
(***************************************************************************)
(* Proofs about XmlStorage, for every number of headers, data blocks and   *)
(* chunks, every set of configurations and both kinds of media.            *)
(***************************************************************************)
EXTENDS XmlStorage, Integers, TLAPS

\* The layouts in which two headers in turn never share a data block.
SwitchingLayout == (HNUM - 1) % BNUM # 0

\* Crashes come in updates only, and media accesses succeed.
UpdateCrashesOnly == CrashIn \subseteq {"update"} /\ Flaky = {} /\ ~IOErr

----------------------------------------------------------------------------
(***************************************************************************)
(* The inductive invariant.                                                *)
(***************************************************************************)

\* allowed only ever receives configurations.
WantOK == pc \in UpdatePcs \cup {"initHdr", "initDat"} => want \in Configs

TypeInv == TypeOK /\ WantOK

\* r is an image of header i that is in its place and not dirty.
Idle(r, i) == r.magic /\ r.start = Start(i) /\ ~r.dirty /\ ~r.ondirty

\* r is an image of header i that is dirty and describes the configuration c,
\* which its data block holds.
Live(r, i, on, c) ==
    /\ r.magic /\ r.start = Start(i) /\ r.dirty /\ r.ondirty = on
    /\ r.sum = Whole(c) /\ dat[Start(i)] = Whole(c)

\* Header i of the medium is erased, its data block still holds c.
Lost(i, c) == hdr[i] = Erased /\ dat[Start(i)] = Whole(c)

IdleBut(H, S) == \A i \in Headers \ S : Idle(H[i], i)

\* One dirty header, no flag: the shape of a medium at rest.
Rest(H, h, c) == Live(H[h], h, FALSE, c) /\ IdleBut(H, {h})

\* The shapes a crash in an update from header h to header n leaves behind.
NewErased(h, n, c, d) ==
    h # n /\ Live(hdr[h], h, FALSE, c) /\ Lost(n, d) /\ IdleBut(hdr, {h, n})
BothDirty(h, n, c, d) ==
    h # n /\ Live(hdr[h], h, FALSE, c) /\ Live(hdr[n], n, TRUE, d) /\ IdleBut(hdr, {h, n})
OldErased(h, n, c, d) ==
    h # n /\ Lost(h, c) /\ Live(hdr[n], n, TRUE, d) /\ IdleBut(hdr, {h, n})
Switched(n, d) == Live(hdr[n], n, TRUE, d) /\ IdleBut(hdr, {n})
ClearErased(n, d) == Lost(n, d) /\ IdleBut(hdr, {n})

Shape(h, n, c, d) ==
    \/ Rest(hdr, h, c)
    \/ NewErased(h, n, c, d)
    \/ BothDirty(h, n, c, d)
    \/ OldErased(h, n, c, d)
    \/ Switched(n, d)
    \/ ClearErased(n, d)

MediaSafe == \E h, n \in Headers : \E c, d \in allowed : Shape(h, n, c, d)

\* Before the factory configuration is installed.
Formatted(i) == [magic |-> TRUE, dirty |-> i = 0, ondirty |-> FALSE,
                 start |-> Start(i), sum |-> NoSum]
InstallInv ==
    /\ file = "short" => pc = "zero"
    /\ file = "absent" => pc = "off" /\ allowed = {}
    /\ allowed = {} => pc \in {"off", "zero", "scan", "clean", "cleanHdr",
                               "initHdr", "initDat"}
    /\ pc \in {"zero", "clean", "cleanHdr", "initHdr", "initDat"} => allowed = {}
    /\ pc \in {"off", "zero", "scan"} /\ allowed = {} => Broken = Headers
    /\ pc = "cleanHdr" => /\ k \in Headers
                          /\ \A i \in 0 .. k - 1 : hdr[i] = Formatted(i)
    /\ pc = "initHdr" =>
          /\ want = Factory
          /\ mem = [Formatted(0) EXCEPT !.sum = Whole(Factory)]
          /\ \A i \in Headers \ {0} : hdr[i] = Formatted(i)
    /\ pc = "initDat" =>
          /\ want = Factory
          /\ mem = [Formatted(0) EXCEPT !.sum = Whole(Factory)]
          /\ hdr[0] = mem
          /\ \A i \in Headers \ {0} : hdr[i] = Formatted(i)

\* The running write loop has filled the chunks before k.
LoopInv ==
    /\ half => MTD /\ pc \in HeaderPcs \cup DataPcs
    /\ pc \in DataPcs =>
          /\ k \in Chunk /\ mem.start \in Blocks
          /\ \A j \in 1 .. k - 1 : dat[mem.start][j] = want

\* The daemon between two updates, and the repair.
BootInv ==
    /\ pc # "failed"
    /\ pc \in {"off", "scan", "fixup"} /\ allowed # {} => MediaSafe
    /\ pc = "fixWrite" =>
          /\ todo # {}
          /\ \E h \in Headers, c \in allowed : Rest(blk, h, c)
          /\ \A i \in Headers \ todo : hdr[i] = blk[i]
    /\ pc \in {"validate", "run"} => \E h \in Headers, c \in allowed : Rest(hdr, h, c)

NewImage == [magic |-> TRUE, dirty |-> TRUE, ondirty |-> TRUE,
             start |-> Start(nxt), sum |-> Whole(want)]

\* The steps of an update.
UpdateInv ==
    /\ pc \in UpdatePcs => /\ want \in allowed /\ cur # nxt
                           /\ Start(cur) # Start(nxt)
    /\ pc = "updDat" =>
          /\ mem = NewImage
          /\ \E c \in allowed : Rest(hdr, cur, c)
    /\ pc = "updNew" =>
          /\ mem = NewImage
          /\ dat[Start(nxt)] = Whole(want)
          /\ \E c \in allowed :
                IF half THEN NewErased(cur, nxt, c, want) ELSE Rest(hdr, cur, c)
    /\ pc = "updOld" =>
          /\ Idle(mem, cur)
          /\ \E c \in allowed :
                IF half THEN OldErased(cur, nxt, c, want)
                        ELSE BothDirty(cur, nxt, c, want)
    /\ pc = "updClr" =>
          /\ mem = [NewImage EXCEPT !.ondirty = FALSE]
          /\ IF half THEN ClearErased(nxt, want) ELSE Switched(nxt, want)

IInv == TypeInv /\ InstallInv /\ LoopInv /\ BootInv /\ UpdateInv

----------------------------------------------------------------------------
(***************************************************************************)
(* Type correctness.                                                       *)
(***************************************************************************)
USE StorageConstants

\* The data block of every header exists.
LEMMA StartInBlocks == \A i \in Headers : Start(i) \in Blocks
BY DEF Headers, Blocks, Start

\* Filling a block with one value gives a content.
LEMMA WholeIsContent == \A c \in Configs \cup {Blank} : Whole(c) \in Content
BY DEF Whole, Content

\* Header images that the code builds are headers.
LEMMA ImagesAreHeaders ==
    /\ Erased \in Header /\ Zeroed \in Header /\ Unformatted \in Header
    /\ \A i \in Headers : Formatted(i) \in Header
BY StartInBlocks DEF Header, Erased, Zeroed, Unformatted, Formatted, Nowhere

\* Type correctness holds initially.
LEMMA TypeInit == Init => TypeInv
<1> SUFFICES ASSUME Init PROVE TypeInv
  OBVIOUS
<1>1. Whole(Blank) \in Content
  BY WholeIsContent
<1>a. /\ hdr \in [Headers -> Header] /\ blk \in [Headers -> Header]
      /\ dat \in [Blocks -> Content] /\ mem \in Header
  BY <1>1, ImagesAreHeaders DEF Init
<1>b. file \in {"absent", "short", "full"}
  BY DEF Init
<1>c. k \in 0 .. (HNUM + CHUNKS) /\ cur \in Headers /\ nxt \in Headers
  BY DEF Init, Headers
<1>2. TypeOK
  BY <1>a, <1>b, <1>c DEF Init, TypeOK
<1>3. WantOK
  BY DEF Init, WantOK, UpdatePcs
<1> QED BY <1>2, <1>3 DEF TypeInv

\* The repaired header copies are headers (_xml_storage_fixup).
LEMMA FixedUpType == TypeOK => FixedUp \in [Headers -> Header]
<1> SUFFICES ASSUME TypeOK, NEW i \in Headers PROVE FixedUp[i] \in Header
  BY DEF FixedUp
<1>0. hdr[i] \in Header /\ Start(i) \in Blocks /\ dat[Start(i)] \in Content
  BY StartInBlocks DEF TypeOK
<1>1. Recover(i) \in Header
  BY <1>0 DEF Recover, Header
<1>2. IsLatest(i) \in BOOLEAN
  BY DEF IsLatest
<1> QED BY <1>0, <1>1, <1>2 DEF FixedUp, Header

\* Type correctness is preserved by every step of xml_storage_open,
\* xml_storage_validate and xml_storage_update, by crashes and restarts.
LEMMA TypeStep == TypeInv /\ [Next]_vars => TypeInv'
<1> SUFFICES ASSUME TypeInv, [Next]_vars PROVE TypeInv'
  OBVIOUS
<1> USE DEF TypeInv, TypeOK, WantOK, media, memory, UpdatePcs, HeaderPcs, DataPcs
<1>1. CASE Create
  BY <1>1 DEF Create
<1>2. CASE ZeroFill
  BY <1>2 DEF ZeroFill
<1>3. CASE OpenExisting
  BY <1>3 DEF OpenExisting
<1>4. CASE Scan
  BY <1>4 DEF Scan
<1>5. CASE CleanData
  <2>1. dat' \in [Blocks -> Content]
    BY <1>5, WholeIsContent DEF CleanData
  <2>2. k' \in 0 .. (HNUM + CHUNKS)
    BY <1>5 DEF CleanData
  <2> QED BY <1>5, <2>1, <2>2 DEF CleanData
<1>6. CASE CleanHeader
  <2>1. k \in Headers => Formatted(k) \in Header
    BY ImagesAreHeaders
  <2>2. hdr' \in [Headers -> Header]
    BY <1>6, <2>1 DEF CleanHeader, Formatted
  <2>3. mem' \in Header
    <3>1. CASE k + 1 < HNUM
      BY <1>6, <3>1 DEF CleanHeader
    <3>2. CASE ~(k + 1 < HNUM)
      <4>1. 0 \in Headers /\ Whole(Factory) \in Content
        BY WholeIsContent DEF Headers
      <4>2. hdr'[0] \in Header /\ mem' = [hdr'[0] EXCEPT !.sum = Whole(Factory)]
        BY <1>6, <3>2, <4>1, <2>2 DEF CleanHeader
      <4> QED BY <4>1, <4>2 DEF Header
    <3> QED BY <3>1, <3>2
  <2>4. k' \in 0 .. (HNUM + CHUNKS)
    BY <1>6 DEF CleanHeader
  <2>5. want' \in Configs \cup {Blank} /\ WantOK'
    BY <1>6 DEF CleanHeader
  <2>6. pc' = pc \/ pc' = "initHdr"
    BY <1>6 DEF CleanHeader
  <2> QED BY <1>6, <2>2, <2>3, <2>4, <2>5, <2>6 DEF CleanHeader
<1>7. CASE EraseHeader
  <2>1. hdr' \in [Headers -> Header]
    BY <1>7, ImagesAreHeaders DEF EraseHeader
  <2> QED BY <1>7, <2>1 DEF EraseHeader
<1>8. CASE EraseChunk
  <2>1. dat' \in [Blocks -> Content]
    BY <1>8 DEF EraseChunk, Content
  <2> QED BY <1>8, <2>1 DEF EraseChunk
<1>9. CASE InitHeader
  <2>1. hdr' \in [Headers -> Header] /\ half' \in BOOLEAN
    BY <1>9 DEF InitHeader, WriteHeader
  <2>2. k' \in 0 .. (HNUM + CHUNKS)
    BY <1>9 DEF InitHeader
  <2> QED BY <1>9, <2>1, <2>2 DEF InitHeader
<1>10. ASSUME NEW next \in {"validate", "updNew"}, pc \in DataPcs, WriteChunk(next)
       PROVE /\ dat' \in [Blocks -> Content] /\ half' \in BOOLEAN
             /\ k' \in 0 .. (HNUM + CHUNKS)
             /\ pc' \in {pc, next}
  <2>1. dat' \in [Blocks -> Content]
    BY <1>10 DEF WriteChunk, Content
  <2>2. k' \in 0 .. (HNUM + CHUNKS)
    BY <1>10 DEF WriteChunk
  <2> QED BY <1>10, <2>1, <2>2 DEF WriteChunk
<1>11. CASE InitData
  <2>1. WriteChunk("validate") /\ pc \in DataPcs
    BY <1>11 DEF InitData
  <2>2. /\ dat' \in [Blocks -> Content] /\ half' \in BOOLEAN
        /\ k' \in 0 .. (HNUM + CHUNKS) /\ pc' \in {pc, "validate"}
    BY <1>10, <2>1
  <2>3. allowed' \subseteq Configs
    BY <1>11 DEF InitData
  <2> QED BY <1>11, <2>2, <2>3 DEF InitData
<1>12. CASE Fixup
  <2>1. blk' \in [Headers -> Header] /\ todo' \subseteq Headers
    BY <1>12, FixedUpType DEF Fixup, ToBeUpdated
  <2> QED BY <1>12, <2>1 DEF Fixup
<1>13. CASE FixupDies
  BY <1>13 DEF FixupDies
<1>14. CASE FixupWrite
  <2>1. hdr' \in [Headers -> Header] /\ half' \in BOOLEAN /\ todo' \subseteq Headers
    BY <1>14 DEF FixupWrite, WriteHeader
  <2> QED BY <1>14, <2>1 DEF FixupWrite
<1>15. CASE Validate
  <2>1. PICK h \in Headers : Valid(h) /\ loaded' = dat[hdr[h].start]
    BY <1>15 DEF Validate
  <2>2. loaded' \in Content
    BY <2>1 DEF Valid
  <2> QED BY <1>15, <2>2 DEF Validate
<1>16. CASE ValidateFails
  BY <1>16 DEF ValidateFails
<1>17. ASSUME NEW c \in Configs, UpdateBegin(c) PROVE TypeInv'
  <2>1. /\ cur' \in Headers /\ nxt' \in Headers
        /\ \E i \in Headers : mem' = [hdr[i] EXCEPT !.dirty = TRUE, !.ondirty = TRUE,
                                                    !.sum = Whole(c)]
    BY <1>17 DEF UpdateBegin
  <2>2. mem' \in Header
    <3>1. PICK i \in Headers : mem' = [hdr[i] EXCEPT !.dirty = TRUE, !.ondirty = TRUE,
                                                    !.sum = Whole(c)]
      BY <2>1
    <3>2. hdr[i] \in Header /\ Whole(c) \in Content
      BY WholeIsContent
    <3> QED BY <3>1, <3>2 DEF Header
  <2>3. k' \in 0 .. (HNUM + CHUNKS) /\ allowed' \subseteq Configs
    BY <1>17 DEF UpdateBegin
  <2> QED BY <1>17, <2>1, <2>2, <2>3 DEF UpdateBegin
<1>18. CASE UpdateData
  <2>1. WriteChunk("updNew") /\ pc \in DataPcs
    BY <1>18 DEF UpdateData
  <2>2. /\ dat' \in [Blocks -> Content] /\ half' \in BOOLEAN
        /\ k' \in 0 .. (HNUM + CHUNKS) /\ pc' \in {pc, "updNew"}
    BY <1>10, <2>1
  <2> QED BY <1>18, <2>2 DEF UpdateData
<1>19. CASE UpdateNewHeader
  <2>1. hdr' \in [Headers -> Header] /\ half' \in BOOLEAN
    BY <1>19 DEF UpdateNewHeader, WriteHeader
  <2>2. mem' \in Header
    BY <1>19, <2>1 DEF UpdateNewHeader, Header
  <2> QED BY <1>19, <2>1, <2>2 DEF UpdateNewHeader
<1>20. CASE UpdateOldHeader
  <2>1. hdr' \in [Headers -> Header] /\ half' \in BOOLEAN
    BY <1>20 DEF UpdateOldHeader, WriteHeader
  <2>2. mem' \in Header
    BY <1>20, <2>1 DEF UpdateOldHeader, Header
  <2> QED BY <1>20, <2>1, <2>2 DEF UpdateOldHeader
<1>21. CASE UpdateClear
  <2>1. hdr' \in [Headers -> Header] /\ half' \in BOOLEAN
    BY <1>21 DEF UpdateClear, WriteHeader
  <2>2. allowed' \subseteq Configs
    BY <1>21 DEF UpdateClear
  <2> QED BY <1>21, <2>1, <2>2 DEF UpdateClear
<1>22. CASE UpdateFail
  BY <1>22 DEF UpdateFail
<1>23. ASSUME LoseMemory PROVE TypeInv'
  <2>1. /\ mem' \in Header /\ blk' \in [Headers -> Header]
        /\ k' \in 0 .. (HNUM + CHUNKS) /\ cur' \in Headers /\ nxt' \in Headers
    BY <1>23, ImagesAreHeaders DEF LoseMemory, Headers
  <2> QED BY <1>23, <2>1 DEF LoseMemory
<1>24. CASE UNCHANGED vars
  BY <1>24 DEF vars
<1> QED
  BY <1>1, <1>2, <1>3, <1>4, <1>5, <1>6, <1>7, <1>8, <1>9, <1>11, <1>12, <1>13,
     <1>14, <1>15, <1>16, <1>17, <1>18, <1>19, <1>20, <1>21, <1>22, <1>23, <1>24
  DEF Next, Daemon, Boot, Update, Crash, PowerOff

\* Every reachable state of the storage is well typed.
THEOREM TypeCorrect == Spec => []TypeOK
<1>1. TypeInv => TypeOK
  BY DEF TypeInv
<1> QED BY TypeInit, TypeStep, <1>1, PTL DEF Spec

----------------------------------------------------------------------------
(***************************************************************************)
(* The repair on each shape that a crash leaves behind.                    *)
(***************************************************************************)

\* Division with remainder, and its consequence for two numbers in turn.
LEMMA DivMod ==
    ASSUME NEW b \in Nat, b >= 2, NEW h \in Nat
    PROVE  h = b * (h \div b) + (h % b)
BY SMTT(20)

\* Consecutive numbers have different remainders.
LEMMA ModStep ==
    ASSUME NEW b \in Nat, b >= 2, NEW h \in Nat
    PROVE  (h + 1) % b # h % b
<1>1. ASSUME NEW p \in Int, NEW q \in Int, NEW r \in Int,
             h = b * q + r, h + 1 = b * p + r
      PROVE  FALSE
  <2>1. b * (p - q) = 1
    BY <1>1
  <2>2. CASE p - q <= 0
    BY <2>1, <2>2
  <2>3. CASE p - q >= 1
    BY <2>1, <2>3
  <2> QED BY <2>2, <2>3
<1>2. h = b * (h \div b) + (h % b)
  BY DivMod
<1>3. h + 1 = b * ((h + 1) \div b) + ((h + 1) % b)
  BY DivMod
<1>4. /\ (h \div b) \in Int /\ ((h + 1) \div b) \in Int
      /\ (h % b) \in Int /\ ((h + 1) % b) \in Int
  OBVIOUS
<1> QED BY <1>1, <1>2, <1>3, <1>4

\* In a switching layout the next header has another data block.
LEMMA NextHasOtherBlock ==
    ASSUME SwitchingLayout, NEW h \in Headers, NEW i \in Headers,
           \A j \in Headers : Distance(h, i) <= Distance(h, j)
    PROVE  h # i /\ Start(h) # Start(i)
<1>1. \/ h + 1 < HNUM /\ i = h + 1
      \/ h = HNUM - 1 /\ i = 0
  <2>1. CASE h + 1 < HNUM
    <3>1. h + 1 \in Headers /\ Distance(h, h + 1) = 1
      BY <2>1 DEF Headers, Distance
    <3>2. Distance(h, i) <= 1
      BY <3>1
    <3> QED BY <2>1, <3>2 DEF Headers, Distance
  <2>2. CASE ~(h + 1 < HNUM)
    <3>1. h = HNUM - 1 /\ 0 \in Headers
      BY <2>2 DEF Headers
    <3>2. Distance(h, i) <= 1
      BY <3>1 DEF Headers, Distance
    <3> QED BY <3>1, <3>2 DEF Headers, Distance
  <2> QED BY <2>1, <2>2
<1>2. CASE h = HNUM - 1 /\ i = 0
  BY <1>2 DEF SwitchingLayout, Start, Headers
<1>3. CASE h + 1 < HNUM /\ i = h + 1
  <2>0. h \in Nat /\ BNUM \in Nat /\ BNUM >= 2
    BY DEF Headers
  <2>1. (h + 1) % BNUM # h % BNUM
    BY <2>0, ModStep, Zenon
  <2> QED BY <1>3, <2>1 DEF Start, Headers
<1> QED BY <1>1, <1>2, <1>3

\* A whole configuration has its closing tag.
LEMMA WholeHasTag ==
    \A b, c : c \in Configs /\ dat[b] = Whole(c) => HasClosingTag(b)
BY DEF Whole, HasClosingTag, Chunk

\* What the repair makes of a medium: nothing fatal, no block without tag,
\* and a resting header array for c.
Repairs(h, c) ==
    /\ ~Fatal
    /\ \A i \in Broken : HasClosingTag(Start(i))
    /\ Broken # Headers
    /\ Rest(FixedUp, h, c)
    /\ \A i \in Headers \ ToBeUpdated : FixedUp[i] = hdr[i]

\* A medium at rest is left alone.
LEMMA RepairRest ==
    ASSUME TypeOK, NEW h \in Headers, NEW c \in Configs, Rest(hdr, h, c)
    PROVE  Repairs(h, c) /\ FixedUp = hdr /\ ToBeUpdated = {}
<1>1. Broken = {} /\ OnDirty = {}
  BY DEF Broken, OnDirty, Rest, Live, Idle, IdleBut
<1>2. ~HasLatest /\ ToBeUpdated = {} /\ ~Fatal
  BY <1>1 DEF HasLatest, ToBeUpdated, Fatal
<1>3. FixedUp = hdr
  BY <1>1, <1>2 DEF FixedUp, TypeOK
<1>4. Broken # Headers
  BY <1>1 DEF Headers
<1> QED BY <1>1, <1>2, <1>3, <1>4 DEF Repairs

\* When one header is ONDIRTY, it becomes the latest, whatever is broken.
LEMMA RepairOnDirty ==
    ASSUME TypeOK, NEW n \in Headers, NEW d \in Configs, Live(hdr[n], n, TRUE, d),
           OnDirty = {n},
           \A i \in Headers \ Broken : hdr[i].start = Start(i),
           \A i \in Headers \ (Broken \cup {n}) : ~hdr[i].ondirty,
           \A i \in Broken : HasClosingTag(Start(i))
    PROVE  Repairs(n, d)
<1>1. n \notin Broken /\ HasLatest /\ ~Fatal
  BY DEF Broken, Live, HasLatest, Fatal
<1>2. FixedUp[n] = [hdr[n] EXCEPT !.ondirty = FALSE] /\ hdr[n] \in Header
  BY <1>1 DEF FixedUp, TypeOK
<1>3. Live(FixedUp[n], n, FALSE, d)
  BY <1>2 DEF Live, Header
<1>4. ASSUME NEW i \in Headers \ {n} PROVE Idle(FixedUp[i], i)
  <2>1. CASE i \in Broken
    <3>1. IsLatest(i) = FALSE
      BY <1>4, <2>1 DEF IsLatest
    <3>2. FixedUp[i] = [Recover(i) EXCEPT !.dirty = FALSE]
      BY <2>1, <3>1 DEF FixedUp
    <3> QED BY <3>2 DEF Recover, Idle
  <2>2. CASE i \notin Broken
    <3>1. FixedUp[i] = [hdr[i] EXCEPT !.dirty = FALSE] /\ hdr[i] \in Header
      BY <1>1, <1>4, <2>2 DEF FixedUp, TypeOK
    <3> QED BY <1>4, <2>2, <3>1 DEF Idle, Header, Broken
  <2> QED BY <2>1, <2>2
<1>5. \A i \in Headers \ ToBeUpdated : FixedUp[i] = hdr[i]
  <2> SUFFICES ASSUME NEW i \in Headers \ ToBeUpdated PROVE FixedUp[i] = hdr[i]
    OBVIOUS
  <2>1. i \notin Broken /\ i \notin OnDirty /\ ~hdr[i].dirty /\ hdr[i] \in Header
    BY <1>1 DEF ToBeUpdated, TypeOK
  <2>2. FixedUp[i] = [hdr[i] EXCEPT !.dirty = FALSE]
    BY <1>1, <2>1 DEF FixedUp
  <2> QED BY <2>1, <2>2 DEF Header
<1> QED BY <1>1, <1>3, <1>4, <1>5 DEF Repairs, Rest, IdleBut

\* When no header is ONDIRTY and one is erased, that one becomes the latest.
LEMMA RepairErased ==
    ASSUME TypeOK, NEW n \in Headers, NEW d \in Configs, Lost(n, d),
           \A i \in Headers \ {n} :
               hdr[i].magic /\ hdr[i].start = Start(i) /\ ~hdr[i].ondirty
    PROVE  Repairs(n, d)
<1>1. Broken = {n} /\ OnDirty = {} /\ HasLatest /\ ~Fatal
  BY DEF Broken, OnDirty, Lost, Erased, HasLatest, Fatal
<1>2. HasClosingTag(Start(n))
  BY WholeHasTag DEF Lost
<1>3. Live(FixedUp[n], n, FALSE, d)
  <2>1. IsLatest(n)
    BY <1>1 DEF IsLatest, Headers
  <2>2. FixedUp[n] = [Recover(n) EXCEPT !.dirty = TRUE]
    BY <1>1, <2>1 DEF FixedUp
  <2> QED BY <1>2, <2>2 DEF Recover, Live, Lost
<1>4. ASSUME NEW i \in Headers \ {n}
      PROVE  FixedUp[i] = [hdr[i] EXCEPT !.dirty = FALSE] /\ hdr[i] \in Header
  BY <1>1, <1>4 DEF FixedUp, TypeOK
<1>5. \A i \in Headers \ {n} : Idle(FixedUp[i], i)
  BY <1>4 DEF Idle, Header
<1>6. \A i \in Headers \ ToBeUpdated : FixedUp[i] = hdr[i]
  <2> SUFFICES ASSUME NEW i \in Headers \ ToBeUpdated PROVE FixedUp[i] = hdr[i]
    OBVIOUS
  <2>1. i # n /\ ~hdr[i].dirty
    BY <1>1 DEF ToBeUpdated
  <2>2. FixedUp[i] = [hdr[i] EXCEPT !.dirty = FALSE] /\ hdr[i] \in Header
    BY <1>4, <2>1
  <2> QED BY <2>1, <2>2 DEF Header
<1>7. Broken # Headers
  <2>1. 0 \in Headers /\ 1 \in Headers
    BY DEF Headers
  <2> QED BY <1>1, <2>1
<1> QED BY <1>1, <1>2, <1>3, <1>5, <1>6, <1>7 DEF Repairs, Rest, IdleBut

\* From the moment the new header is erased, the repair takes the new
\* configuration.
LEMMA NewShapeRepairs ==
    ASSUME TypeOK, NEW h \in Headers, NEW n \in Headers, NEW c \in Configs,
           NEW d \in Configs,
           \/ NewErased(h, n, c, d) \/ BothDirty(h, n, c, d) \/ OldErased(h, n, c, d)
           \/ Switched(n, d) \/ ClearErased(n, d)
    PROVE  Repairs(n, d)
<1>1. CASE NewErased(h, n, c, d)
  <2>1. Lost(n, d) /\ \A i \in Headers \ {n} :
            hdr[i].magic /\ hdr[i].start = Start(i) /\ ~hdr[i].ondirty
    BY <1>1 DEF NewErased, Live, IdleBut, Idle
  <2> QED BY <2>1, RepairErased
<1>2. CASE BothDirty(h, n, c, d)
  <2>1. Broken = {} /\ OnDirty = {n}
    BY <1>2 DEF BothDirty, Live, IdleBut, Idle, Broken, OnDirty
  <2>2. Live(hdr[n], n, TRUE, d) /\ \A i \in Headers : hdr[i].start = Start(i)
    BY <1>2 DEF BothDirty, Live, IdleBut, Idle
  <2>3. \A i \in Headers \ {n} : ~hdr[i].ondirty
    BY <1>2 DEF BothDirty, Live, IdleBut, Idle
  <2> QED BY <2>1, <2>2, <2>3, RepairOnDirty
<1>3. CASE OldErased(h, n, c, d)
  <2>1. Broken = {h} /\ OnDirty = {n}
    BY <1>3 DEF OldErased, Lost, Erased, Live, IdleBut, Idle, Broken, OnDirty
  <2>2. Live(hdr[n], n, TRUE, d) /\ \A i \in Headers \ {h} : hdr[i].start = Start(i)
    BY <1>3 DEF OldErased, Live, IdleBut, Idle
  <2>3. \A i \in Headers \ {h, n} : ~hdr[i].ondirty
    BY <1>3 DEF OldErased, IdleBut, Idle
  <2>4. HasClosingTag(Start(h))
    BY <1>3, WholeHasTag DEF OldErased, Lost
  <2> QED BY <2>1, <2>2, <2>3, <2>4, RepairOnDirty
<1>4. CASE Switched(n, d)
  <2>1. Broken = {} /\ OnDirty = {n}
    BY <1>4 DEF Switched, Live, IdleBut, Idle, Broken, OnDirty
  <2>2. Live(hdr[n], n, TRUE, d) /\ \A i \in Headers : hdr[i].start = Start(i)
    BY <1>4 DEF Switched, Live, IdleBut, Idle
  <2>3. \A i \in Headers \ {n} : ~hdr[i].ondirty
    BY <1>4 DEF Switched, IdleBut, Idle
  <2> QED BY <2>1, <2>2, <2>3, RepairOnDirty
<1>5. CASE ClearErased(n, d)
  <2>1. Lost(n, d) /\ \A i \in Headers \ {n} :
            hdr[i].magic /\ hdr[i].start = Start(i) /\ ~hdr[i].ondirty
    BY <1>5 DEF ClearErased, IdleBut, Idle
  <2> QED BY <2>1, RepairErased
<1> QED BY <1>1, <1>2, <1>3, <1>4, <1>5

\* Every shape a crash in an update leaves behind is repaired to the old or
\* to the new configuration.
LEMMA ShapeRepairs ==
    ASSUME TypeOK, MediaSafe
    PROVE  \E h \in Headers, c \in allowed : Repairs(h, c)
<1>1. PICK h \in Headers, n \in Headers, c \in allowed, d \in allowed : Shape(h, n, c, d)
  BY DEF MediaSafe
<1>2. c \in Configs /\ d \in Configs
  BY DEF TypeOK
<1>3. CASE Rest(hdr, h, c)
  BY <1>2, <1>3, RepairRest
<1>4. CASE ~Rest(hdr, h, c)
  <2>1. Repairs(n, d)
    BY <1>1, <1>2, <1>4, NewShapeRepairs DEF Shape
  <2> QED BY <2>1
<1> QED BY <1>3, <1>4

\* A resting header array makes xml_storage_validate load its configuration.
LEMMA RestLoads ==
    ASSUME NEW H, NEW h \in Headers, NEW c, Rest(H, h, c)
    PROVE  Loads(H, c)
<1>1. Start(h) \in Blocks
  BY StartInBlocks
<1>2. \A i \in Headers : H[i].dirty <=> i = h
  BY DEF Rest, Live, IdleBut, Idle
<1> QED BY <1>1, <1>2 DEF Rest, Live, Loads

\* In every state the invariant allows, a restart finds a configuration.
LEMMA InvRecoverable == IInv => Recoverable
<1> SUFFICES ASSUME IInv, allowed # {}
             PROVE  \E c \in allowed : WouldLoad(c)
  BY DEF Recoverable
<1>0. TypeOK
  BY DEF IInv, TypeInv
<1>1. CASE pc = "fixWrite"
  BY <1>1, RestLoads DEF IInv, BootInv, WouldLoad
<1>2. CASE pc # "fixWrite"
  <2>1. MediaSafe
    <3>1. CASE pc \in {"off", "scan", "fixup"}
      BY <3>1 DEF IInv, BootInv
    <3>2. CASE pc \in {"validate", "run"}
      BY <3>2 DEF IInv, BootInv, MediaSafe, Shape
    <3>3. CASE pc \in UpdatePcs
      <4>1. cur \in Headers /\ nxt \in Headers /\ want \in allowed
        BY <1>0, <3>3 DEF TypeOK, IInv, UpdateInv
      <4>2. \E c \in allowed : Shape(cur, nxt, c, want)
        BY <3>3, <4>1 DEF IInv, UpdateInv, UpdatePcs, Shape
      <4> QED BY <4>1, <4>2 DEF MediaSafe
    <3>4. pc \in {"off", "scan", "fixup", "validate", "run"} \cup UpdatePcs
      BY <1>0, <1>2 DEF IInv, InstallInv, BootInv, TypeOK, HeaderPcs, DataPcs, UpdatePcs
    <3> QED BY <3>1, <3>2, <3>3, <3>4
  <2>2. PICK h \in Headers, c \in allowed : Repairs(h, c)
    BY <1>0, <2>1, ShapeRepairs
  <2>3. BootsTo(c)
    BY <2>2, RestLoads DEF Repairs, BootsTo
  <2> QED BY <1>2, <2>3 DEF WouldLoad
<1> QED BY <1>1, <1>2

----------------------------------------------------------------------------
(***************************************************************************)
(* The invariant is inductive.                                             *)
(***************************************************************************)

\* The invariant holds on an unformatted medium.
LEMMA InvInit == Init => IInv
<1> SUFFICES ASSUME Init PROVE IInv
  OBVIOUS
<1>1. Broken = Headers
  BY DEF Init, Broken, Unformatted, Erased, Zeroed
<1>2. InstallInv
  BY <1>1 DEF Init, InstallInv
<1>3. LoopInv /\ BootInv /\ UpdateInv
  BY DEF Init, LoopInv, BootInv, UpdateInv, DataPcs, UpdatePcs
<1> QED BY <1>2, <1>3, TypeInit DEF IInv

\* xml_storage_open up to the header scan.
LEMMA OpenStep ==
    ASSUME IInv, TypeInv', Create \/ ZeroFill \/ OpenExisting \/ Scan
    PROVE  IInv'
<1> USE DEF media, memory
<1>0. /\ UNCHANGED <<hdr, dat, memory, allowed>>
      /\ pc \in {"off", "zero", "scan"}
      /\ pc' \in {"zero", "scan", "failed", "clean", "fixup"}
  BY DEF Create, ZeroFill, OpenExisting, Scan
<1>1. MediaSafe => Broken # Headers
  <2>1. TypeOK
    BY DEF IInv, TypeInv
  <2> QED BY <2>1, ShapeRepairs DEF Repairs
<1>2. InstallInv'
  <2>1. /\ file' = "short" => pc' = "zero"
        /\ file' # "absent"
        /\ pc' = "zero" => allowed' = {}
    <3>1. CASE Create
      BY <3>1 DEF Create, IInv, InstallInv
    <3> QED BY <3>1 DEF Create, ZeroFill, OpenExisting, Scan, IInv, InstallInv
  <2>2. Broken' = Broken
    BY <1>0 DEF Broken
  <2>3. allowed = {} => Broken = Headers
    BY <1>0 DEF IInv, InstallInv
  <2>4. pc' = "clean" => allowed' = {}
    BY <1>0, <1>1 DEF Create, ZeroFill, OpenExisting, Scan, IInv, InstallInv, BootInv
  <2>5. allowed' = {} => pc' \in {"zero", "scan", "clean"}
    BY <1>0, <2>3 DEF Create, ZeroFill, OpenExisting, Scan, IInv, InstallInv
  <2> QED BY <1>0, <2>1, <2>2, <2>3, <2>4, <2>5 DEF InstallInv
<1>3. LoopInv'
  BY <1>0 DEF IInv, LoopInv, HeaderPcs, DataPcs
<1>4. BootInv'
  <2>1. pc' # "failed"
    BY <1>0 DEF Create, ZeroFill, OpenExisting, Scan, IInv, InstallInv
  <2>2. MediaSafe' <=> MediaSafe
    BY <1>0 DEF MediaSafe, Shape, Rest, Live, IdleBut, Idle, NewErased, BothDirty,
                OldErased, Switched, ClearErased, Lost
  <2>3. pc = "zero" => allowed = {}
    BY DEF IInv, InstallInv
  <2>4. pc' = "fixup" => MediaSafe \/ allowed = {}
    BY <1>0, <2>3 DEF IInv, BootInv
  <2> QED BY <1>0, <2>1, <2>2, <2>3, <2>4 DEF IInv, BootInv
<1>5. UpdateInv'
  BY <1>0 DEF UpdateInv, UpdatePcs
<1> QED BY <1>2, <1>3, <1>4, <1>5 DEF IInv

\* _xml_storage_clean.
LEMMA CleanStep ==
    ASSUME IInv, TypeInv', CleanData \/ CleanHeader
    PROVE  IInv'
<1>0. /\ pc \in {"clean", "cleanHdr"} /\ pc' \in {"cleanHdr", "initHdr"}
      /\ file' \in {file, "full"} /\ UNCHANGED <<half, allowed>>
  BY DEF CleanData, CleanHeader
<1>1. allowed' = {} /\ file' = "full"
  BY <1>0 DEF IInv, InstallInv, TypeInv, TypeOK
<1>2. CASE CleanData
  <2>1. pc' = "cleanHdr" /\ k' = 0
    BY <1>2 DEF CleanData
  <2>2. InstallInv'
    BY <1>1, <2>1 DEF InstallInv, Headers
  <2> QED BY <1>0, <1>1, <2>1, <2>2
          DEF IInv, LoopInv, BootInv, UpdateInv, HeaderPcs, DataPcs, UpdatePcs
<1>3. CASE CleanHeader
  <2>1. /\ pc = "cleanHdr" /\ k \in Headers
        /\ \A i \in 0 .. k - 1 : hdr[i] = Formatted(i)
        /\ hdr \in [Headers -> Header]
        /\ hdr' = [hdr EXCEPT ![k] = Formatted(k)]
    BY <1>3 DEF CleanHeader, IInv, InstallInv, TypeInv, TypeOK, Formatted
  <2>2. \A i \in 0 .. k : hdr'[i] = Formatted(i)
    BY <2>1 DEF Headers
  <2>3. CASE k + 1 < HNUM
    <3>1. pc' = "cleanHdr" /\ k' = k + 1
      BY <1>3, <2>1, <2>3 DEF CleanHeader
    <3>2. k' \in Headers /\ \A i \in 0 .. k' - 1 : hdr'[i] = Formatted(i)
      BY <2>1, <2>2, <2>3, <3>1 DEF Headers
    <3>3. InstallInv'
      BY <1>1, <3>1, <3>2 DEF InstallInv, Formatted
    <3> QED BY <1>0, <1>1, <3>1, <3>3
            DEF IInv, LoopInv, BootInv, UpdateInv, HeaderPcs, DataPcs, UpdatePcs
  <2>4. CASE ~(k + 1 < HNUM)
    <3>1. /\ pc' = "initHdr" /\ want' = Factory
          /\ mem' = [hdr'[0] EXCEPT !.sum = Whole(Factory)]
      BY <1>3, <2>4 DEF CleanHeader
    <3>2. \A i \in Headers : hdr'[i] = Formatted(i)
      BY <2>1, <2>2, <2>4 DEF Headers
    <3>3. mem' = [Formatted(0) EXCEPT !.sum = Whole(Factory)]
      BY <3>1, <3>2 DEF Headers
    <3>4. InstallInv'
      BY <1>1, <3>1, <3>2, <3>3 DEF InstallInv, Formatted
    <3> QED BY <1>0, <1>1, <3>1, <3>4
            DEF IInv, LoopInv, BootInv, UpdateInv, HeaderPcs, DataPcs, UpdatePcs
  <2> QED BY <2>3, <2>4
<1> QED BY <1>2, <1>3

\* _xml_storage_initialize, with the erase halves of its writes.
LEMMA InitializeStep ==
    ASSUME IInv, TypeInv', pc \in {"initHdr", "initDat"},
           InitHeader \/ InitData \/ EraseHeader \/ EraseChunk
    PROVE  IInv'
<1>0. /\ allowed = {} /\ file = "full" /\ want = Factory /\ TypeOK
      /\ mem = [Formatted(0) EXCEPT !.sum = Whole(Factory)]
      /\ \A i \in Headers \ {0} : hdr[i] = Formatted(i)
      /\ 0 \in Headers /\ 0 \in Blocks /\ Start(0) = 0
  BY DEF IInv, InstallInv, TypeInv, TypeOK, Headers, Blocks, Start
<1>1. mem.start = 0
  BY <1>0 DEF Formatted
<1>2. CASE EraseHeader
  <2>1. /\ pc = "initHdr" /\ MTD /\ hdr' = [hdr EXCEPT ![0] = Erased] /\ half'
        /\ UNCHANGED <<file, pc, want, mem, allowed>>
    BY <1>2 DEF EraseHeader, HeaderPcs, Target
  <2>2. InstallInv'
    BY <1>0, <2>1 DEF InstallInv, Formatted
  <2> QED BY <1>0, <2>1, <2>2
          DEF IInv, LoopInv, BootInv, UpdateInv, HeaderPcs, DataPcs, UpdatePcs
<1>3. CASE InitHeader
  <2>1. /\ pc = "initHdr" /\ pc' = "initDat" /\ hdr' = [hdr EXCEPT ![0] = mem]
        /\ half' = FALSE /\ k' = 1 /\ UNCHANGED <<file, want, mem, allowed>>
    BY <1>3 DEF InitHeader, WriteHeader
  <2>2. hdr'[0] = mem /\ \A i \in Headers \ {0} : hdr'[i] = hdr[i]
    BY <1>0, <2>1 DEF TypeOK
  <2>3. InstallInv'
    BY <1>0, <2>1, <2>2 DEF InstallInv, Formatted
  <2>4. LoopInv'
    BY <1>0, <1>1, <2>1 DEF LoopInv, Chunk, DataPcs
  <2> QED BY <1>0, <2>1, <2>3, <2>4 DEF IInv, BootInv, UpdateInv, UpdatePcs
<1>4. CASE EraseChunk
  <2>1. /\ pc = "initDat" /\ MTD /\ half' /\ dat' = [dat EXCEPT ![0][k] = Blank]
        /\ UNCHANGED <<file, hdr, pc, k, want, mem, allowed>>
    BY <1>1, <1>4 DEF EraseChunk, DataPcs
  <2>2. InstallInv'
    BY <1>0, <2>1 DEF InstallInv, IInv, Formatted
  <2>3. LoopInv'
    <3>1. k \in Chunk /\ \A j \in 1 .. k - 1 : dat[0][j] = want
      BY <1>1, <2>1 DEF IInv, LoopInv, DataPcs
    <3>2. \A j \in 1 .. k - 1 : dat'[0][j] = want
      BY <1>0, <2>1, <3>1 DEF TypeOK, Content, Chunk
    <3> QED BY <1>0, <1>1, <2>1, <3>1, <3>2 DEF LoopInv, DataPcs
  <2> QED BY <1>0, <2>1, <2>2, <2>3 DEF IInv, BootInv, UpdateInv, UpdatePcs
<1>5. CASE InitData
  <2>1. /\ pc = "initDat" /\ half' = FALSE /\ dat' = [dat EXCEPT ![0][k] = want]
        /\ UNCHANGED <<file, hdr, want, mem>>
    BY <1>1, <1>5 DEF InitData, WriteChunk
  <2>2. /\ k \in Chunk /\ \A j \in 1 .. k - 1 : dat[0][j] = want
        /\ hdr[0] = mem
    BY <1>1, <2>1 DEF IInv, LoopInv, InstallInv, DataPcs
  <2>3. \A j \in 1 .. k : dat'[0][j] = want
    BY <1>0, <2>1, <2>2 DEF TypeOK, Content, Chunk
  <2>4. CASE k < CHUNKS
    <3>1. k' = k + 1 /\ pc' = "initDat" /\ allowed' = allowed
      BY <1>5, <2>4 DEF InitData, WriteChunk
    <3>2. InstallInv'
      BY <1>0, <2>1, <2>2, <3>1 DEF InstallInv, Formatted
    <3>3. LoopInv'
      BY <1>0, <1>1, <2>1, <2>2, <2>3, <2>4, <3>1 DEF LoopInv, DataPcs, Chunk
    <3> QED BY <1>0, <2>1, <3>1, <3>2, <3>3 DEF IInv, BootInv, UpdateInv, UpdatePcs
  <2>5. CASE ~(k < CHUNKS)
    <3>1. k = CHUNKS /\ pc' = "validate" /\ allowed' = {Factory}
      BY <1>0, <1>5, <2>2, <2>5 DEF InitData, WriteChunk, Chunk
    <3>2. dat'[0] = Whole(Factory)
      <4>1. dat'[0] \in Content
        BY <1>0 DEF TypeInv, TypeOK
      <4> QED BY <1>0, <2>3, <3>1, <4>1 DEF Whole, Content, Chunk
    <3>3. Rest(hdr, 0, Factory)'
      <4>1. Live(hdr[0], 0, FALSE, Factory)'
        BY <1>0, <2>1, <2>2, <3>2 DEF Live, Formatted
      <4>2. IdleBut(hdr, {0})'
        <5> SUFFICES ASSUME NEW i \in Headers \ {0} PROVE Idle(hdr[i], i)'
          BY DEF IdleBut
        <5>1. hdr'[i] = Formatted(i) /\ i # 0
          BY <1>0, <2>1
        <5>2. /\ Formatted(i).magic /\ Formatted(i).start = Start(i)
              /\ ~Formatted(i).dirty /\ ~Formatted(i).ondirty
          BY <5>1 DEF Formatted
        <5> QED BY <5>1, <5>2 DEF Idle
      <4> QED BY <4>1, <4>2 DEF Rest
    <3>4. BootInv'
      BY <1>0, <3>1, <3>3 DEF BootInv
    <3>5. InstallInv' /\ LoopInv' /\ UpdateInv'
      BY <1>0, <2>1, <3>1 DEF InstallInv, LoopInv, UpdateInv, HeaderPcs, DataPcs, UpdatePcs
    <3> QED BY <3>4, <3>5 DEF IInv
  <2> QED BY <2>4, <2>5
<1> QED BY <1>2, <1>3, <1>4, <1>5

\* _xml_storage_fixup and xml_storage_validate.
LEMMA RepairStep ==
    ASSUME IInv, TypeInv', pc \in {"fixup", "fixWrite", "validate"},
           \/ Fixup \/ FixupDies \/ FixupWrite \/ EraseHeader
           \/ Validate \/ ValidateFails
    PROVE  IInv'
<1> USE DEF media, memory
<1>0. TypeOK /\ allowed # {} /\ file = "full" /\ allowed \subseteq Configs
  BY DEF IInv, InstallInv, TypeInv, TypeOK
<1>1. CASE pc = "fixup"
  <2>0. PICK h \in Headers, c \in allowed : Repairs(h, c)
    BY <1>0, <1>1, ShapeRepairs DEF IInv, BootInv
  <2>1. /\ Fixup /\ blk' = FixedUp /\ todo' = ToBeUpdated
        /\ pc' = IF ToBeUpdated = {} THEN "validate" ELSE "fixWrite"
        /\ UNCHANGED <<file, hdr, dat, half, allowed>>
    BY <1>1, <2>0 DEF Repairs, Fixup, FixupDies, FixupWrite, EraseHeader, HeaderPcs,
                      Validate, ValidateFails
  <2>2. half' = FALSE
    BY <1>1, <2>1 DEF IInv, LoopInv, HeaderPcs, DataPcs, TypeInv, TypeOK
  <2>3. Rest(FixedUp, h, c) /\ \A i \in Headers \ ToBeUpdated : FixedUp[i] = hdr[i]
    BY <2>0 DEF Repairs
  <2>4. CASE ToBeUpdated = {}
    <3>1. Rest(hdr, h, c)'
      BY <2>1, <2>3, <2>4 DEF Rest, Live, IdleBut, Idle
    <3> QED BY <1>0, <2>1, <2>2, <2>4, <3>1
            DEF IInv, InstallInv, LoopInv, BootInv, UpdateInv, DataPcs, UpdatePcs
  <2>5. CASE ToBeUpdated # {}
    <3>1. Rest(blk, h, c)'
      BY <2>1, <2>3 DEF Rest, Live, IdleBut, Idle
    <3>2. \A i \in Headers \ todo' : hdr'[i] = blk'[i]
      BY <2>1, <2>3
    <3>3. BootInv'
      BY <1>0, <2>1, <2>5, <3>1, <3>2 DEF BootInv
    <3> QED BY <1>0, <2>1, <2>2, <2>5, <3>3
            DEF IInv, InstallInv, LoopInv, UpdateInv, DataPcs, UpdatePcs
  <2> QED BY <2>4, <2>5
<1>2. CASE pc = "fixWrite"
  <2>0. PICK h \in Headers, c \in allowed : Rest(blk, h, c)
    BY <1>2 DEF IInv, BootInv
  <2>1. CASE EraseHeader
    <3>1. PICK i \in Headers : NextTodo(i) /\ hdr' = [hdr EXCEPT ![i] = Erased]
      BY <1>2, <2>1 DEF EraseHeader, Target
    <3>2. MTD /\ half' = TRUE /\ UNCHANGED <<file, dat, pc, blk, todo, allowed>>
      BY <2>1 DEF EraseHeader
    <3>3. \A j \in Headers \ todo : hdr'[j] = blk[j]
      BY <1>0, <1>2, <3>1 DEF IInv, BootInv, NextTodo, TypeOK
    <3>4. Rest(blk, h, c)'
      BY <2>0, <3>2 DEF Rest, Live, IdleBut, Idle
    <3>5. BootInv'
      BY <1>2, <2>0, <3>2, <3>3, <3>4 DEF IInv, BootInv
    <3> QED BY <1>0, <1>2, <3>2, <3>5
            DEF IInv, InstallInv, LoopInv, UpdateInv, HeaderPcs, DataPcs, UpdatePcs
  <2>2. CASE FixupWrite
    <3>1. PICK i \in Headers : /\ NextTodo(i) /\ hdr' = [hdr EXCEPT ![i] = blk[i]]
                              /\ todo' = todo \ {i} /\ half' = FALSE
      BY <2>2 DEF FixupWrite, WriteHeader
    <3>2. /\ UNCHANGED <<file, dat, blk, allowed>>
          /\ pc' = IF todo' = {} THEN "validate" ELSE "fixWrite"
      BY <2>2 DEF FixupWrite
    <3>3. \A j \in Headers \ todo' : hdr'[j] = blk[j]
      BY <1>0, <1>2, <3>1 DEF IInv, BootInv, TypeOK
    <3>4. Rest(blk, h, c)'
      BY <2>0, <3>2 DEF Rest, Live, IdleBut, Idle
    <3>5. todo' = {} => Rest(hdr, h, c)'
      BY <3>2, <3>3, <3>4 DEF Rest, Live, IdleBut, Idle
    <3>6. BootInv'
      BY <1>0, <2>0, <3>2, <3>3, <3>4, <3>5 DEF BootInv
    <3> QED BY <1>0, <3>1, <3>2, <3>6
            DEF IInv, InstallInv, LoopInv, UpdateInv, DataPcs, UpdatePcs
  <2> QED BY <1>2, <2>1, <2>2 DEF Fixup, FixupDies, Validate, ValidateFails
<1>3. CASE pc = "validate"
  <2>0. PICK h \in Headers, c \in allowed : Rest(hdr, h, c)
    BY <1>3 DEF IInv, BootInv
  <2>1. \A i \in Headers : hdr[i].dirty <=> i = h
    BY <2>0 DEF Rest, Live, IdleBut, Idle
  <2>2. /\ DirtyHeaders({}) = {h} /\ hdr[h].start = Start(h) /\ Start(h) \in Blocks
        /\ dat[Start(h)] = Whole(c) /\ hdr[h].sum = Whole(c)
    BY <2>0, <2>1, StartInBlocks DEF DirtyHeaders, Rest, Live
  <2>3. Valid(h) /\ \A i \in Headers : Valid(i) => i = h
    BY <2>2 DEF Valid, Fetched
  <2>4. /\ loaded' = Whole(c) /\ allowed' = {e \in Configs : loaded' = Whole(e)}
        /\ pc' = "run" /\ UNCHANGED <<file, hdr, dat, half>>
    BY <1>3, <2>2, <2>3 DEF Fixup, FixupDies, FixupWrite, EraseHeader, HeaderPcs,
                            Validate, ValidateFails
  <2>5. c \in allowed'
    BY <1>0, <2>4
  <2>6. Rest(hdr, h, c)'
    BY <2>0, <2>4 DEF Rest, Live, IdleBut, Idle
  <2>7. half' = FALSE
    BY <1>3, <2>4 DEF IInv, LoopInv, HeaderPcs, DataPcs, TypeInv, TypeOK
  <2>8. BootInv'
    BY <2>4, <2>5, <2>6 DEF BootInv
  <2> QED BY <1>0, <2>4, <2>5, <2>7, <2>8
          DEF IInv, InstallInv, LoopInv, UpdateInv, DataPcs, UpdatePcs
<1> QED BY <1>1, <1>2, <1>3

\* The beginning of xml_storage_update.
LEMMA BeginStep ==
    ASSUME SwitchingLayout, UpdateCrashesOnly, IInv, TypeInv',
           NEW e \in Configs, UpdateBegin(e)
    PROVE  IInv'
<1> USE DEF media
<1>0. PICK h \in Headers, c \in allowed : Rest(hdr, h, c)
  BY DEF UpdateBegin, IInv, BootInv
<1>1. \A i \in Headers : hdr[i].dirty <=> i = h
  BY <1>0 DEF Rest, Live, IdleBut, Idle
<1>2. PICK g \in Headers, i \in Headers :
        /\ Fetched(g, {})
        /\ \A j \in Headers : Distance(g, i) <= Distance(g, j)
        /\ cur' = g /\ nxt' = i
        /\ mem' = [hdr[i] EXCEPT !.dirty = TRUE, !.ondirty = TRUE, !.sum = Whole(e)]
  <2>1. SUBSET Flaky = {{}} /\ Headers \ {} = Headers
    BY DEF UpdateCrashesOnly
  <2> QED BY <2>1 DEF UpdateBegin
<1>3. g = h
  BY <1>1, <1>2 DEF Fetched, DirtyHeaders
<1>4. h # i /\ Start(h) # Start(i)
  BY <1>2, <1>3, NextHasOtherBlock
<1>5. /\ pc' = "updDat" /\ want' = e /\ k' = 1 /\ allowed' = allowed \cup {e}
      /\ UNCHANGED <<file, hdr, dat, half>> /\ pc = "run"
  BY DEF UpdateBegin
<1>6. hdr[i] \in Header /\ hdr[i].magic /\ hdr[i].start = Start(i)
  BY <1>0, <1>4 DEF Rest, IdleBut, Idle, IInv, TypeInv, TypeOK
<1>7. mem' = NewImage'
  BY <1>2, <1>5, <1>6 DEF NewImage, Header
<1>8. Rest(hdr, cur, c)'
  BY <1>0, <1>2, <1>3, <1>5 DEF Rest, Live, IdleBut, Idle
<1>9. UpdateInv'
  BY <1>2, <1>3, <1>4, <1>5, <1>7, <1>8 DEF UpdateInv, UpdatePcs
<1>10. LoopInv'
  <2>1. mem'.start \in Blocks
    <3>1. mem'.start = Start(i)
      BY <1>2, <1>6 DEF Header
    <3> QED BY <3>1, StartInBlocks
  <2>2. half' = FALSE
    BY <1>5 DEF IInv, LoopInv, HeaderPcs, DataPcs, TypeInv, TypeOK
  <2> QED BY <1>5, <2>1, <2>2 DEF LoopInv, Chunk
<1>11. InstallInv' /\ BootInv'
  BY <1>5 DEF IInv, InstallInv, BootInv
<1> QED BY <1>9, <1>10, <1>11 DEF IInv

\* The data write of xml_storage_update leaves the current block alone.
LEMMA DataStep ==
    ASSUME IInv, TypeInv', pc = "updDat", UpdateData \/ EraseChunk
    PROVE  IInv'
<1>0. /\ TypeOK /\ mem = NewImage /\ want \in allowed /\ cur # nxt
      /\ Start(cur) # Start(nxt) /\ file = "full" /\ cur \in Headers /\ nxt \in Headers
      /\ k \in Chunk /\ \A j \in 1 .. k - 1 : dat[mem.start][j] = want
  BY DEF IInv, UpdateInv, LoopInv, TypeInv, TypeOK, UpdatePcs, DataPcs, InstallInv
<1>1. PICK c \in allowed : Rest(hdr, cur, c)
  BY DEF IInv, UpdateInv
<1>2. mem.start = Start(nxt) /\ Start(nxt) \in Blocks /\ Start(cur) \in Blocks
  BY <1>0, StartInBlocks DEF NewImage
<1>3. PICK w \in Configs \cup {Blank} : dat' = [dat EXCEPT ![Start(nxt)][k] = w]
  BY <1>0, <1>2 DEF UpdateData, WriteChunk, EraseChunk, TypeOK
<1>4. UNCHANGED <<file, hdr, cur, nxt, mem, want, allowed>>
  BY DEF UpdateData, WriteChunk, EraseChunk
<1>5. dat'[Start(cur)] = dat[Start(cur)]
  BY <1>0, <1>2, <1>3 DEF TypeOK
<1>6. Rest(hdr, cur, c)' /\ NewImage' = NewImage
  BY <1>1, <1>4, <1>5 DEF Rest, Live, IdleBut, Idle, NewImage
<1>7. \A j \in 1 .. k - 1 : dat'[Start(nxt)][j] = want
  BY <1>0, <1>2, <1>3 DEF TypeOK, Content, Chunk
<1>8. CASE EraseChunk
  <2>1. MTD /\ half' = TRUE /\ UNCHANGED <<pc, k>>
    BY <1>8 DEF EraseChunk
  <2>2. UpdateInv'
    BY <1>0, <1>4, <1>6, <2>1 DEF UpdateInv, UpdatePcs
  <2>3. LoopInv'
    BY <1>0, <1>2, <1>4, <1>7, <2>1 DEF LoopInv, DataPcs
  <2> QED BY <1>0, <1>4, <2>1, <2>2, <2>3 DEF IInv, InstallInv, BootInv
<1>9. CASE UpdateData
  <2>1. /\ half' = FALSE /\ dat' = [dat EXCEPT ![Start(nxt)][k] = want]
        /\ IF k < CHUNKS THEN k' = k + 1 /\ pc' = "updDat" ELSE k' = 0 /\ pc' = "updNew"
    BY <1>2, <1>9 DEF UpdateData, WriteChunk
  <2>2. \A j \in 1 .. k : dat'[Start(nxt)][j] = want
    BY <1>0, <1>2, <1>7, <2>1 DEF TypeOK, Content, Chunk
  <2>3. CASE k < CHUNKS
    <3>1. UpdateInv'
      BY <1>0, <1>4, <1>6, <2>1, <2>3 DEF UpdateInv, UpdatePcs
    <3>2. LoopInv'
      BY <1>0, <1>2, <1>4, <2>1, <2>2, <2>3 DEF LoopInv, DataPcs, Chunk
    <3> QED BY <1>0, <1>4, <2>1, <2>3, <3>1, <3>2 DEF IInv, InstallInv, BootInv
  <2>4. CASE ~(k < CHUNKS)
    <3>1. k = CHUNKS /\ pc' = "updNew"
      BY <1>0, <2>1, <2>4 DEF Chunk
    <3>2. dat'[Start(nxt)] = Whole(want)
      <4>1. dat'[Start(nxt)] \in Content
        BY <1>2 DEF TypeInv, TypeOK
      <4> QED BY <2>2, <3>1, <4>1 DEF Whole, Content, Chunk
    <3>3. UpdateInv'
      <4>1. (dat[Start(nxt)] = Whole(want))'
        BY <1>4, <3>2 DEF Start, Whole
      <4> QED BY <1>0, <1>4, <1>6, <2>1, <3>1, <4>1 DEF UpdateInv, UpdatePcs
    <3>4. LoopInv'
      BY <2>1, <3>1 DEF LoopInv, DataPcs
    <3> QED BY <1>0, <1>4, <3>1, <3>3, <3>4 DEF IInv, InstallInv, BootInv
  <2> QED BY <2>3, <2>4
<1> QED BY <1>8, <1>9

\* The three header writes of xml_storage_update, with their erase halves.
LEMMA SwitchStep ==
    ASSUME IInv, TypeInv', pc \in {"updNew", "updOld", "updClr"},
           UpdateNewHeader \/ UpdateOldHeader \/ UpdateClear \/ EraseHeader
    PROVE  IInv'
<1>0. /\ TypeOK /\ want \in allowed /\ cur # nxt /\ Start(cur) # Start(nxt)
      /\ file = "full" /\ cur \in Headers /\ nxt \in Headers
      /\ hdr \in [Headers -> Header]
  BY DEF IInv, UpdateInv, TypeInv, TypeOK, UpdatePcs, InstallInv
<1>1. UNCHANGED <<file, dat, cur, nxt, want>>
  BY DEF UpdateNewHeader, UpdateOldHeader, UpdateClear, EraseHeader
<1>2. NewImage' = NewImage /\ NewImage.magic /\ NewImage.dirty /\ NewImage.ondirty
      /\ NewImage.start = Start(nxt) /\ NewImage.sum = Whole(want)
  BY <1>1 DEF NewImage
<1>3. CASE pc = "updNew"
  <2>0. PICK c \in allowed :
          IF half THEN NewErased(cur, nxt, c, want) ELSE Rest(hdr, cur, c)
    BY <1>3 DEF IInv, UpdateInv
  <2>1. mem = NewImage /\ dat[Start(nxt)] = Whole(want)
    BY <1>3 DEF IInv, UpdateInv
  <2>2. Live(hdr[cur], cur, FALSE, c) /\ IdleBut(hdr, {cur, nxt})
    BY <2>0 DEF NewErased, Rest, IdleBut
  <2>3. CASE EraseHeader
    <3>1. /\ MTD /\ half' = TRUE /\ hdr' = [hdr EXCEPT ![nxt] = Erased]
          /\ UNCHANGED <<pc, mem, allowed>>
      BY <1>3, <2>3 DEF EraseHeader, Target
    <3>2. NewErased(cur, nxt, c, want)'
      BY <1>0, <1>1, <2>1, <2>2, <3>1 DEF NewErased, Lost, Live, IdleBut, Idle
    <3>3. UpdateInv'
      BY <1>0, <1>1, <1>2, <1>3, <2>1, <3>1, <3>2 DEF UpdateInv, UpdatePcs
    <3> QED BY <1>0, <1>1, <1>3, <3>1, <3>3
            DEF IInv, InstallInv, BootInv, LoopInv, HeaderPcs, DataPcs
  <2>4. CASE UpdateNewHeader
    <3>1. /\ half' = FALSE /\ hdr' = [hdr EXCEPT ![nxt] = mem] /\ pc' = "updOld"
          /\ mem' = [hdr'[cur] EXCEPT !.dirty = FALSE, !.ondirty = FALSE]
          /\ UNCHANGED allowed
      BY <2>4 DEF UpdateNewHeader, WriteHeader
    <3>2. hdr'[nxt] = NewImage /\ \A i \in Headers \ {nxt} : hdr'[i] = hdr[i]
      BY <1>0, <2>1, <3>1
    <3>3. BothDirty(cur, nxt, c, want)'
      <4>1. Live(hdr[nxt], nxt, TRUE, want)'
        BY <1>1, <1>2, <2>1, <3>2 DEF Live
      <4>2. Live(hdr[cur], cur, FALSE, c)' /\ IdleBut(hdr, {cur, nxt})'
        BY <1>0, <1>1, <2>2, <3>2 DEF Live, IdleBut, Idle
      <4> QED BY <1>0, <1>1, <4>1, <4>2 DEF BothDirty
    <3>4. Idle(mem, cur)'
      <4>1. hdr'[cur] \in Header /\ hdr'[cur].magic /\ hdr'[cur].start = Start(cur)
        BY <1>0, <2>2, <3>2 DEF Live
      <4> QED BY <1>1, <3>1, <4>1 DEF Idle, Header
    <3>5. UpdateInv'
      BY <1>0, <1>1, <3>1, <3>3, <3>4 DEF UpdateInv, UpdatePcs
    <3> QED BY <1>0, <1>1, <3>1, <3>5 DEF IInv, InstallInv, BootInv, LoopInv, DataPcs
  <2> QED BY <1>3, <2>3, <2>4 DEF UpdateOldHeader, UpdateClear
<1>4. CASE pc = "updOld"
  <2>0. PICK c \in allowed :
          IF half THEN OldErased(cur, nxt, c, want) ELSE BothDirty(cur, nxt, c, want)
    BY <1>4 DEF IInv, UpdateInv
  <2>1. Idle(mem, cur)
    BY <1>4 DEF IInv, UpdateInv
  <2>2. /\ Live(hdr[nxt], nxt, TRUE, want) /\ IdleBut(hdr, {cur, nxt})
        /\ dat[Start(cur)] = Whole(c)
    BY <2>0 DEF OldErased, BothDirty, Lost, Live
  <2>3. CASE EraseHeader
    <3>1. /\ MTD /\ half' = TRUE /\ hdr' = [hdr EXCEPT ![cur] = Erased]
          /\ UNCHANGED <<pc, mem, allowed>>
      BY <1>4, <2>3 DEF EraseHeader, Target
    <3>2. OldErased(cur, nxt, c, want)'
      BY <1>0, <1>1, <2>2, <3>1 DEF OldErased, Lost, Live, IdleBut, Idle
    <3>3. UpdateInv'
      BY <1>0, <1>1, <1>4, <2>1, <3>1, <3>2 DEF UpdateInv, UpdatePcs, Idle
    <3> QED BY <1>0, <1>1, <1>4, <3>1, <3>3
            DEF IInv, InstallInv, BootInv, LoopInv, HeaderPcs, DataPcs
  <2>4. CASE UpdateOldHeader
    <3>1. /\ half' = FALSE /\ hdr' = [hdr EXCEPT ![cur] = mem] /\ pc' = "updClr"
          /\ mem' = [hdr'[nxt] EXCEPT !.ondirty = FALSE] /\ UNCHANGED allowed
      BY <2>4 DEF UpdateOldHeader, WriteHeader
    <3>2. hdr'[cur] = mem /\ \A i \in Headers \ {cur} : hdr'[i] = hdr[i]
      BY <1>0, <3>1
    <3>3. Switched(nxt, want)'
      <4>1. Live(hdr[nxt], nxt, TRUE, want)'
        BY <1>0, <1>1, <2>2, <3>2 DEF Live
      <4>2. IdleBut(hdr, {nxt})'
        BY <1>0, <1>1, <2>1, <2>2, <3>2 DEF IdleBut, Idle
      <4> QED BY <4>1, <4>2 DEF Switched
    <3>4. mem' = [NewImage EXCEPT !.ondirty = FALSE]'
      <4>1. hdr'[nxt] \in Header /\ Live(hdr[nxt], nxt, TRUE, want)
        BY <1>0, <2>2, <3>2
      <4>2. hdr'[nxt] = NewImage
        BY <1>0, <3>2, <4>1 DEF Live, NewImage, Header
      <4> QED BY <1>2, <3>1, <4>2
    <3>5. UpdateInv'
      BY <1>0, <1>1, <3>1, <3>3, <3>4 DEF UpdateInv, UpdatePcs
    <3> QED BY <1>0, <1>1, <3>1, <3>5 DEF IInv, InstallInv, BootInv, LoopInv, DataPcs
  <2> QED BY <1>4, <2>3, <2>4 DEF UpdateNewHeader, UpdateClear
<1>5. CASE pc = "updClr"
  <2>0. mem = [NewImage EXCEPT !.ondirty = FALSE]
        /\ IF half THEN ClearErased(nxt, want) ELSE Switched(nxt, want)
    BY <1>5 DEF IInv, UpdateInv
  <2>1. dat[Start(nxt)] = Whole(want) /\ IdleBut(hdr, {nxt})
    BY <2>0 DEF ClearErased, Switched, Lost, Live
  <2>2. CASE EraseHeader
    <3>1. /\ MTD /\ half' = TRUE /\ hdr' = [hdr EXCEPT ![nxt] = Erased]
          /\ UNCHANGED <<pc, mem, allowed>>
      BY <1>5, <2>2 DEF EraseHeader, Target
    <3>2. ClearErased(nxt, want)'
      BY <1>0, <1>1, <2>1, <3>1 DEF ClearErased, Lost, IdleBut, Idle
    <3>3. UpdateInv'
      BY <1>0, <1>1, <1>2, <1>5, <2>0, <3>1, <3>2 DEF UpdateInv, UpdatePcs
    <3> QED BY <1>0, <1>1, <1>5, <3>1, <3>3
            DEF IInv, InstallInv, BootInv, LoopInv, HeaderPcs, DataPcs
  <2>3. CASE UpdateClear
    <3>1. /\ half' = FALSE /\ hdr' = [hdr EXCEPT ![nxt] = mem] /\ pc' = "run"
          /\ allowed' = {want}
      BY <2>3 DEF UpdateClear, WriteHeader
    <3>2. hdr'[nxt] = mem /\ \A i \in Headers \ {nxt} : hdr'[i] = hdr[i]
      BY <1>0, <3>1
    <3>3. Rest(hdr, nxt, want)'
      <4>1. Live(hdr[nxt], nxt, FALSE, want)'
        BY <1>1, <2>0, <2>1, <3>2 DEF Live, NewImage
      <4>2. IdleBut(hdr, {nxt})'
        BY <1>1, <2>1, <3>2 DEF IdleBut, Idle
      <4> QED BY <4>1, <4>2 DEF Rest
    <3>4. BootInv'
      BY <1>0, <1>1, <3>1, <3>3 DEF BootInv
    <3> QED BY <1>0, <1>1, <3>1, <3>4
            DEF IInv, InstallInv, LoopInv, UpdateInv, DataPcs, UpdatePcs
  <2> QED BY <1>5, <2>2, <2>3 DEF UpdateNewHeader, UpdateOldHeader
<1> QED BY <1>3, <1>4, <1>5

\* A crash in an update and a power cycle.
LEMMA RestartStep ==
    ASSUME UpdateCrashesOnly, IInv, TypeInv', Crash \/ PowerOff
    PROVE  IInv'
<1>0. pc \in UpdatePcs \cup {"run"} /\ LoseMemory
  BY DEF Crash, PowerOff, UpdateCrashesOnly, PhasePcs, IInv, BootInv
<1>1. /\ pc' = "off" /\ half' = FALSE /\ UNCHANGED <<file, hdr, dat, allowed>>
  BY <1>0 DEF LoseMemory, media
<1>2. allowed # {} /\ file = "full"
  BY <1>0 DEF IInv, InstallInv, UpdatePcs, TypeInv, TypeOK
<1>3. MediaSafe
  <2>1. CASE pc = "run"
    BY <2>1 DEF IInv, BootInv, MediaSafe, Shape
  <2>2. CASE pc \in UpdatePcs
    <3>1. cur \in Headers /\ nxt \in Headers /\ want \in allowed
      BY <2>2 DEF TypeInv, TypeOK, IInv, UpdateInv
    <3>2. \E c \in allowed : Shape(cur, nxt, c, want)
      BY <2>2, <3>1 DEF IInv, UpdateInv, UpdatePcs, Shape
    <3> QED BY <3>1, <3>2 DEF MediaSafe
  <2> QED BY <1>0, <2>1, <2>2
<1>4. MediaSafe'
  BY <1>1, <1>3 DEF MediaSafe, Shape, Rest, Live, IdleBut, Idle, NewErased, BothDirty,
                    OldErased, Switched, ClearErased, Lost
<1> QED BY <1>1, <1>2, <1>4
        DEF IInv, InstallInv, LoopInv, BootInv, UpdateInv, DataPcs, UpdatePcs

\* The invariant is preserved by every step of the storage.
LEMMA InvStep ==
    ASSUME SwitchingLayout, UpdateCrashesOnly, IInv, [Next]_vars
    PROVE  IInv'
<1>1. TypeInv'
  BY TypeStep DEF IInv
<1>2. CASE Create \/ ZeroFill \/ OpenExisting \/ Scan
  BY <1>1, <1>2, OpenStep
<1>3. CASE CleanData \/ CleanHeader
  BY <1>1, <1>3, CleanStep
<1>4. CASE InitHeader \/ InitData
  <2>1. pc \in {"initHdr", "initDat"}
    BY <1>4 DEF InitHeader, InitData
  <2> QED BY <1>1, <1>4, <2>1, InitializeStep
<1>5. CASE Fixup \/ FixupDies \/ FixupWrite \/ Validate \/ ValidateFails
  <2>1. pc \in {"fixup", "fixWrite", "validate"}
    BY <1>5 DEF Fixup, FixupDies, FixupWrite, Validate, ValidateFails
  <2> QED BY <1>1, <1>5, <2>1, RepairStep
<1>6. CASE UpdateData
  <2>1. pc = "updDat"
    BY <1>6 DEF UpdateData
  <2> QED BY <1>1, <1>6, <2>1, DataStep
<1>7. CASE UpdateNewHeader \/ UpdateOldHeader \/ UpdateClear
  <2>1. pc \in {"updNew", "updOld", "updClr"}
    BY <1>7 DEF UpdateNewHeader, UpdateOldHeader, UpdateClear
  <2> QED BY <1>1, <1>7, <2>1, SwitchStep
<1>8. CASE EraseHeader
  <2>1. pc \in HeaderPcs
    BY <1>8 DEF EraseHeader
  <2> QED BY <1>1, <1>8, <2>1, InitializeStep, RepairStep, SwitchStep DEF HeaderPcs
<1>9. CASE EraseChunk
  <2>1. pc \in DataPcs
    BY <1>9 DEF EraseChunk
  <2> QED BY <1>1, <1>9, <2>1, InitializeStep, DataStep DEF DataPcs
<1>10. ASSUME NEW c \in Configs, UpdateBegin(c) PROVE IInv'
  BY <1>1, <1>10, BeginStep
<1>11. ~UpdateFail
  BY DEF UpdateFail, UpdateCrashesOnly
<1>12. CASE Crash \/ PowerOff
  BY <1>1, <1>12, RestartStep
<1>13. CASE UNCHANGED vars
  <2>1. /\ MediaSafe' = MediaSafe /\ NewImage' = NewImage /\ Broken' = Broken
    BY <1>13 DEF vars, MediaSafe, Shape, Rest, Live, IdleBut, Idle, NewErased, BothDirty,
                 OldErased, Switched, ClearErased, Lost, NewImage, Broken, Start, Whole
  <2>2. InstallInv' = InstallInv /\ LoopInv' = LoopInv
    BY <1>13, <2>1 DEF vars, InstallInv, LoopInv
  <2>3. BootInv' = BootInv
    BY <1>13, <2>1 DEF vars, BootInv, Rest, Live, IdleBut, Idle
  <2>4. UpdateInv' = UpdateInv
    BY <1>13, <2>1 DEF vars, UpdateInv, Rest, Live, IdleBut, Idle, NewErased, BothDirty,
                       OldErased, Switched, ClearErased, Lost
  <2> QED BY <1>1, <2>2, <2>3, <2>4 DEF IInv
<1> QED
  BY <1>2, <1>3, <1>4, <1>5, <1>6, <1>7, <1>8, <1>9, <1>10, <1>11, <1>12, <1>13
  DEF Next, Daemon, Boot, Update

----------------------------------------------------------------------------
(***************************************************************************)
(* The theorems.                                                           *)
(***************************************************************************)

\* After a repair one header is dirty.
LEMMA InvOneUsefulHeader == IInv => OneUsefulHeader
<1> SUFFICES ASSUME IInv, pc \in {"validate", "run"}
             PROVE  \E h \in Headers : Fetched(h, {})
  BY DEF OneUsefulHeader
<1>1. PICK h \in Headers, c \in allowed : Rest(hdr, h, c)
  BY DEF IInv, BootInv
<1>2. \A i \in Headers : hdr[i].dirty <=> i = h
  BY <1>1 DEF Rest, Live, IdleBut, Idle
<1> QED BY <1>2 DEF Fetched, DirtyHeaders

\* An update writes into the other data block.
LEMMA InvSwitchesData == IInv => SwitchesData
<1> SUFFICES ASSUME IInv, pc = "updDat"
             PROVE  mem.start # hdr[cur].start
  BY DEF SwitchesData
<1>1. mem.start = Start(nxt) /\ Start(cur) # Start(nxt)
  BY DEF IInv, UpdateInv, UpdatePcs, NewImage
<1>2. hdr[cur].start = Start(cur)
  BY DEF IInv, UpdateInv, Rest, Live
<1> QED BY <1>1, <1>2

\* Every step of the storage starts in a state of the inductive invariant,
\* if crashes come in updates only and consecutive headers have different
\* data blocks.
THEOREM Invariance ==
    ASSUME SwitchingLayout, UpdateCrashesOnly
    PROVE  Spec => []IInv
<1>1. IInv /\ [Next]_vars => IInv'
  BY InvStep
<1> QED BY InvInit, <1>1, PTL DEF Spec

\* Crash safety of xml_storage_update: a restart at any moment finds the old
\* or the new configuration.
THEOREM CrashSafe ==
    ASSUME SwitchingLayout, UpdateCrashesOnly
    PROVE  Spec => []Recoverable
<1>1. Spec => []IInv
  BY Invariance
<1> QED BY <1>1, InvRecoverable, PTL

\* The repair and the validation never give up after update crashes.
THEOREM NeverGivesUp ==
    ASSUME SwitchingLayout, UpdateCrashesOnly
    PROVE  Spec => []NeverFails
<1>1. Spec => []IInv
  BY Invariance
<1>2. IInv => NeverFails
  BY DEF IInv, BootInv, NeverFails
<1> QED BY <1>1, <1>2, PTL

\* Just one header is useful when _xml_storage_fixup is over, as storage.h
\* says.
THEOREM OneHeaderKept ==
    ASSUME SwitchingLayout, UpdateCrashesOnly
    PROVE  Spec => []OneUsefulHeader
<1>1. Spec => []IInv
  BY Invariance
<1> QED BY <1>1, InvOneUsefulHeader, PTL

\* xml_storage_update never writes into the data block that holds the current
\* configuration.
THEOREM DataSwitched ==
    ASSUME SwitchingLayout, UpdateCrashesOnly
    PROVE  Spec => []SwitchesData
<1>1. Spec => []IInv
  BY Invariance
<1> QED BY <1>1, InvSwitchesData, PTL

\* The daemon comes up in xml_storage_validate only.
LEMMA OnlyValidateRuns ==
    ASSUME [Next]_vars, pc = "validate", pc' = "run"
    PROVE  Validate
<1> USE DEF HeaderPcs, DataPcs, UpdatePcs
<1>1. ~UNCHANGED vars
  BY DEF vars
<1>2. ~Boot \/ Validate
  BY DEF Boot, Create, ZeroFill, OpenExisting, Scan, CleanData, CleanHeader,
         InitHeader, InitData, Fixup, FixupDies, FixupWrite, ValidateFails
<1>3. ~Update /\ ~EraseHeader /\ ~EraseChunk /\ ~UpdateFail
  BY DEF Update, UpdateData, UpdateNewHeader, UpdateOldHeader, UpdateClear,
         EraseHeader, EraseChunk, UpdateFail
<1>4. \A c \in Configs : ~UpdateBegin(c)
  BY DEF UpdateBegin
<1>5. ~Crash /\ ~PowerOff
  BY DEF Crash, PowerOff, LoseMemory
<1> QED BY <1>1, <1>2, <1>3, <1>4, <1>5 DEF Next, Daemon

\* What a validation hands to the daemon is the configuration of the medium.
LEMMA ValidateLoads ==
    ASSUME SwitchingLayout, UpdateCrashesOnly, IInv, [Next]_vars,
           pc = "validate", pc' = "run"
    PROVE  \E c \in allowed : loaded' = Whole(c)
<1>1. Validate
  BY OnlyValidateRuns
<1>2. PICK g \in Headers : Valid(g) /\ loaded' = dat[hdr[g].start]
  BY <1>1 DEF Validate
<1>3. PICK h \in Headers, c \in allowed : Rest(hdr, h, c)
  BY DEF IInv, BootInv
<1>4. g = h
  BY <1>2, <1>3 DEF Valid, Fetched, DirtyHeaders, Rest, Live, IdleBut, Idle
<1> QED BY <1>2, <1>3, <1>4 DEF Rest, Live

\* A boot after any number of cut updates loads the old configuration or the
\* new one, never a mixture, and never one that an acknowledged update
\* replaced.
THEOREM LoadsOldOrNew ==
    ASSUME SwitchingLayout, UpdateCrashesOnly
    PROVE  Spec => OldOrNew
<1>1. Spec => []IInv
  BY Invariance
<1>2. IInv /\ [Next]_vars =>
        [(pc = "validate" /\ pc' = "run") => \E c \in allowed : loaded' = Whole(c)]_vars
  BY ValidateLoads
<1> QED BY <1>1, <1>2, PTL DEF Spec, OldOrNew
============================================================================
