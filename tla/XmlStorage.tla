----------------------------- MODULE XmlStorage -----------------------------
(***************************************************************************)
(* The persistent configuration storage of xcfgd                           *)
(* (exts/xconfig/source/xconfig/storage/storage.cpp).                      *)
(*                                                                         *)
(* The medium holds HNUM header blocks followed by BNUM data blocks.  The  *)
(* header whose "dirty" word is set names the data block with the current  *)
(* configuration.  An update goes to the next header and to that header's  *)
(* data block, in four media writes: data, new header (dirty + ONDIRTY),   *)
(* old header (not dirty), new header again (ONDIRTY cleared).  At boot    *)
(* xml_storage_open scans the headers, formats an unformatted medium or    *)
(* repairs a formatted one (_xml_storage_fixup), and xml_storage_validate  *)
(* loads the configuration named by the one dirty header.                  *)
(*                                                                         *)
(* Every write to the medium is a step of its own, so that a crash can     *)
(* come between any two of them.  On an MTD a write is an erase followed   *)
(* by a program (mtd_write), and a crash can come in between too.          *)
(*                                                                         *)
(* Data is abstract: a configuration is a model value that fills every     *)
(* chunk of its data block and whose closing tag is in the last chunk; the *)
(* pair (crc, rsize) of a header is the very content it was computed from, *)
(* so that two different contents never have the same checksum.            *)
(***************************************************************************)
EXTENDS Naturals, FiniteSets

CONSTANTS
    HNUM,       \* header blocks    (xcfgd -n, 2..4, default 4)
    BNUM,       \* data blocks      (xcfgd -b, 2..4, default 2)
    CHUNKS,     \* STORAGE_IO_SIZE pieces of a data block
    Configs,    \* the configurations a client may ask for
    Factory,    \* the configuration file given with -f
    Blank,      \* a chunk without configuration bytes (zeros or erased flash)
    NoSum,      \* a (crc, rsize) pair with which nothing can be loaded
    MTD,        \* TRUE: stor_interface[STOR_MTD], FALSE: [STOR_FILE]
    CrashIn,    \* the phases a crash may interrupt
    Flaky,      \* headers whose reads may fail while the daemon runs
    IOErr       \* TRUE: a media access of an update may fail

Headers == 0 .. HNUM - 1
Blocks  == 0 .. BNUM - 1
Nowhere == BNUM                  \* a start field that is no data block
Chunk   == 1 .. CHUNKS
Content == [Chunk -> Configs \cup {Blank}]
Whole(c) == [i \in Chunk |-> c]
Phases  == {"init", "fixup", "update"}

ASSUME StorageConstants ==
    /\ HNUM \in Nat /\ HNUM >= 2
    /\ BNUM \in Nat /\ BNUM >= 2
    /\ CHUNKS \in Nat /\ CHUNKS >= 1
    /\ Factory \in Configs
    /\ Blank \notin Configs
    /\ NoSum \notin Content
    /\ MTD \in BOOLEAN
    /\ CrashIn \subseteq Phases
    /\ Flaky \subseteq Headers
    /\ IOErr \in BOOLEAN

VARIABLES
    file,    \* the media file: "absent", "short" (being zeroed) or "full"
    hdr,     \* the header blocks on the medium
    dat,     \* the data blocks on the medium
    pc,      \* what the daemon is doing
    k,       \* the loop index of the running write loop
    half,    \* MTD: the unit being written is erased, not yet programmed
    cur,     \* cblock: header of the current configuration
    nxt,     \* nblock: header the update switches to
    mem,     \* xmlstor.header: the header image in memory
    blk,     \* the header copies _xml_storage_fixup repairs
    todo,    \* the copies flagged STOR_FLAG_TBU, still to be written
    want,    \* xmlstor.data: the configuration an update is writing
    loaded,  \* the content xml_storage_validate handed to the daemon
    allowed  \* history: the configurations a restart may load: the one last
             \* loaded or acknowledged, and those of updates begun since

media  == <<file, hdr, dat>>
memory == <<k, half, cur, nxt, mem, blk, todo, want, loaded>>
vars   == <<file, hdr, dat, pc, k, half, cur, nxt, mem, blk, todo, want,
            loaded, allowed>>

----------------------------------------------------------------------------
(***************************************************************************)
(* Header images.  "flags" is reduced to its ONDIRTY bits; RECOVERED and   *)
(* TBU never reach the medium.  An erased block reads as ones: its magic   *)
(* is wrong and its dirty word and its ONDIRTY bits are set.               *)
(***************************************************************************)
Header == [magic : BOOLEAN, dirty : BOOLEAN, ondirty : BOOLEAN,
           start : Blocks \cup {Nowhere}, sum : Content \cup {NoSum}]

Erased == [magic |-> FALSE, dirty |-> TRUE, ondirty |-> TRUE,
           start |-> Nowhere, sum |-> NoSum]
Zeroed == [magic |-> FALSE, dirty |-> FALSE, ondirty |-> FALSE,
           start |-> Nowhere, sum |-> NoSum]
Unformatted == IF MTD THEN Erased ELSE Zeroed

\* Mutants of Start: the turn never wraps; neighbours share a block.
Start_NoWrap(i) == i
Start_Paired(i) == i \div BNUM

\* The data block of header i: the loops of _xml_storage_clean and
\* xml_storage_data_recover step through the data blocks in turn.
Start(i) == i % BNUM

\* How many headers on from a the switching loop of xml_storage_update finds
\* b; it comes back to a itself last.
Distance(a, b) == IF b > a THEN b - a ELSE (b + HNUM) - a

\* _xml_storage_header_fetch(stor, -1), when the headers in R cannot be
\* read: the one dirty header; none or several make it fail.
DirtyHeaders(R) == {i \in Headers \ R : hdr[i].dirty}

\* Mutant: the first dirty header is taken, a second one is not noticed.
Fetched_First(h, R) == h \in DirtyHeaders(R) /\ \A i \in DirtyHeaders(R) : h <= i

Fetched(h, R) == DirtyHeaders(R) = {h}

\* strcasestr finds "</config>" in the block.
HasClosingTag(b) == dat[b][CHUNKS] # Blank

----------------------------------------------------------------------------
(***************************************************************************)
(* _xml_storage_fixup, steps 0 to 4: pure functions of the medium.         *)
(***************************************************************************)
Broken == {i \in Headers : ~hdr[i].magic}

\* Mutant: the checksum of the recovered data is forgotten.
Recover_NoCrc(i) ==
    [magic |-> TRUE, dirty |-> TRUE, ondirty |-> FALSE, start |-> Start(i),
     sum |-> NoSum]

\* Step 1 (xml_storage_data_recover): a header rebuilt from its data block.
\* Without a closing tag the size is computed from a null pointer: the header
\* then fails its checksum, or describes something that is no configuration.
Recover(i) ==
    [magic |-> TRUE, dirty |-> TRUE, ondirty |-> FALSE, start |-> Start(i),
     sum |-> IF HasClosingTag(Start(i)) THEN dat[Start(i)] ELSE NoSum]

\* Step 2: the headers of an update cut short.
OnDirty == {i \in Headers \ Broken : hdr[i].dirty /\ hdr[i].ondirty}
\* Mutant: a dirty header is taken for one that is also ONDIRTY.
Fatal_AnyDirty == \E i, j \in Headers \ Broken :
                     i # j /\ hdr[i].dirty /\ hdr[j].dirty

Fatal   == \E i, j \in OnDirty : i # j

\* Steps 2 and 3: header i becomes the latest one.
IsLatest(i) == \/ i \in OnDirty
               \/ /\ OnDirty = {}
                  /\ i \in Broken
                  /\ \A j \in Broken : i <= j
HasLatest == OnDirty # {} \/ Broken # {}

\* Step 4: the headers flagged TBU.
ToBeUpdated == {i \in Headers :
                   \/ i \in Broken \cup OnDirty
                   \/ HasLatest /\ hdr[i].dirty}

\* Mutants: step 4 is missing; step 3 leaves every recovered header dirty.
FixedUp_NoStep4 == [i \in Headers |->
    IF i \in Broken THEN [Recover(i) EXCEPT !.dirty = IsLatest(i)]
    ELSE IF i \in OnDirty THEN [hdr[i] EXCEPT !.ondirty = FALSE]
    ELSE hdr[i]]
FixedUp_NoStep3 == [i \in Headers |->
    IF i \in Broken THEN Recover(i)
    ELSE IF i \in OnDirty THEN [hdr[i] EXCEPT !.ondirty = FALSE]
    ELSE IF HasLatest THEN [hdr[i] EXCEPT !.dirty = FALSE]
    ELSE hdr[i]]

\* The header copies after step 4.
FixedUp == [i \in Headers |->
    IF i \in Broken THEN [Recover(i) EXCEPT !.dirty = IsLatest(i)]
    ELSE IF i \in OnDirty THEN [hdr[i] EXCEPT !.ondirty = FALSE]
    ELSE IF HasLatest THEN [hdr[i] EXCEPT !.dirty = FALSE]
    ELSE hdr[i]]

----------------------------------------------------------------------------
Init ==
    /\ file = IF MTD THEN "full" ELSE "absent"
    /\ hdr = [i \in Headers |-> Unformatted]
    /\ dat = [b \in Blocks |-> Whole(Blank)]
    /\ pc = "off"
    /\ k = 0 /\ half = FALSE /\ cur = 0 /\ nxt = 0 /\ mem = Unformatted
    /\ blk = hdr /\ todo = {} /\ want = Blank /\ loaded = NoSum
    /\ allowed = {}

----------------------------------------------------------------------------
(***************************************************************************)
(* xml_storage_open.                                                       *)
(***************************************************************************)

\* The media file does not exist: file_open creates it.
Create ==
    /\ pc = "off" /\ file = "absent"
    /\ file' = "short" /\ pc' = "zero"
    /\ UNCHANGED <<hdr, dat, memory, allowed>>

\* The loop that zeroes a created file up to STOR_SIZE.
ZeroFill ==
    /\ pc = "zero"
    /\ file' = "full" /\ pc' = "scan"
    /\ UNCHANGED <<hdr, dat, memory, allowed>>

OpenExisting ==
    /\ pc = "off" /\ file # "absent"
    /\ pc' = "scan"
    /\ UNCHANGED <<media, memory, allowed>>

\* The header scan: a short file fails it, unless only less than half of the
\* last data block is missing; no header with the magic means a first boot,
\* otherwise the medium is repaired.
Scan ==
    /\ pc = "scan"
    /\ pc' \in {IF Broken = Headers THEN "clean" ELSE "fixup"}
               \cup {l \in {"failed"} : file = "short"}
    /\ UNCHANGED <<media, memory, allowed>>

\* _xml_storage_clean: the data blocks are zeroed, ...
CleanData ==
    /\ pc = "clean"
    /\ dat' = [b \in Blocks |-> Whole(Blank)]
    /\ pc' = "cleanHdr" /\ k' = 0 /\ file' = "full"
    /\ UNCHANGED <<hdr, half, cur, nxt, mem, blk, todo, want, loaded,
                   allowed>>

\* ... then the headers are written one by one, the first one dirty.  After
\* the last one _xml_storage_initialize fetches the dirty header and fills in
\* the size and the checksum of the file given with -f.
CleanHeader ==
    /\ pc = "cleanHdr"
    /\ hdr' = [hdr EXCEPT ![k] = [magic |-> TRUE, dirty |-> k = 0,
                                  ondirty |-> FALSE, start |-> Start(k),
                                  sum |-> NoSum]]
    /\ IF k + 1 < HNUM
       THEN k' = k + 1 /\ UNCHANGED <<pc, mem, want>>
       ELSE /\ pc' = "initHdr" /\ k' = 0
            /\ mem' = [hdr'[0] EXCEPT !.sum = Whole(Factory)]
            /\ want' = Factory
    /\ UNCHANGED <<file, dat, half, cur, nxt, blk, todo, loaded, allowed>>

----------------------------------------------------------------------------
(***************************************************************************)
(* Writing to the medium.                                                  *)
(***************************************************************************)
HeaderPcs == {"initHdr", "fixWrite", "updNew", "updOld", "updClr"}
DataPcs   == {"initDat", "updDat"}
UpdatePcs == {"updDat", "updNew", "updOld", "updClr"}

NextTodo(i) == i \in todo /\ \A j \in todo : i <= j

\* The header block being written.
Target(i) == CASE pc = "initHdr"  -> i = 0
               [] pc = "fixWrite" -> NextTodo(i)
               [] pc \in {"updNew", "updClr"} -> i = nxt
               [] pc = "updOld" -> i = cur

\* mtd_write: MEMERASE of the block about to be programmed.
EraseHeader ==
    /\ MTD /\ ~half /\ pc \in HeaderPcs
    /\ \E i \in Headers : /\ Target(i)
                          /\ hdr' = [hdr EXCEPT ![i] = Erased]
    /\ half' = TRUE
    /\ UNCHANGED <<file, dat, pc, k, cur, nxt, mem, blk, todo, want, loaded,
                   allowed>>

EraseChunk ==
    /\ MTD /\ ~half /\ pc \in DataPcs
    /\ dat' = [dat EXCEPT ![mem.start][k] = Blank]
    /\ half' = TRUE
    /\ UNCHANGED <<file, hdr, pc, k, cur, nxt, mem, blk, todo, want, loaded,
                   allowed>>

\* The write itself: file_write, or the program half of mtd_write.
Programmable == MTD => half

\* One STORAGE_IO_SIZE piece of the data block, the last one leads to "next".
WriteChunk(next) ==
    /\ Programmable
    /\ dat' = [dat EXCEPT ![mem.start][k] = want]
    /\ half' = FALSE
    /\ IF k < CHUNKS THEN k' = k + 1 /\ pc' = pc
                     ELSE k' = 0 /\ pc' = next

WriteHeader(i, h) ==
    /\ Programmable
    /\ hdr' = [hdr EXCEPT ![i] = h]
    /\ half' = FALSE

----------------------------------------------------------------------------
(***************************************************************************)
(* _xml_storage_initialize: first the header, then the data.               *)
(***************************************************************************)
InitHeader ==
    /\ pc = "initHdr"
    /\ WriteHeader(0, mem)
    /\ pc' = "initDat" /\ k' = 1
    /\ UNCHANGED <<file, dat, cur, nxt, mem, blk, todo, want, loaded, allowed>>

InitData ==
    /\ pc = "initDat"
    /\ WriteChunk("validate")
    /\ allowed' = IF k = CHUNKS THEN {want} ELSE allowed
    /\ UNCHANGED <<file, hdr, cur, nxt, mem, blk, todo, want, loaded>>

----------------------------------------------------------------------------
(***************************************************************************)
(* _xml_storage_fixup.                                                     *)
(***************************************************************************)
Fixup ==
    /\ pc = "fixup"
    /\ \/ /\ Fatal                      \* "SYSTEM IS FATALLY CRASHED!"
          /\ pc' = "failed" /\ UNCHANGED <<blk, todo>>
       \/ /\ ~Fatal
          /\ blk' = FixedUp /\ todo' = ToBeUpdated
          /\ pc' = IF ToBeUpdated = {} THEN "validate" ELSE "fixWrite"
    /\ UNCHANGED <<media, k, half, cur, nxt, mem, want, loaded, allowed>>

\* The checksum of a block without closing tag runs over a size derived from
\* a null pointer: undefined behaviour, one outcome is that the daemon dies.
FixupDies ==
    /\ pc = "fixup"
    /\ \E i \in Broken : ~HasClosingTag(Start(i))
    /\ pc' = "failed"
    /\ UNCHANGED <<media, memory, allowed>>

\* Step 5: the flagged copies are written in index order.  The reboot the
\* code asks for afterwards runs beside the daemon, which goes on.
FixupWrite ==
    /\ pc = "fixWrite"
    /\ \E i \in Headers : /\ NextTodo(i)
                          /\ WriteHeader(i, blk[i])
                          /\ todo' = todo \ {i}
    /\ pc' = IF todo' = {} THEN "validate" ELSE "fixWrite"
    /\ UNCHANGED <<file, dat, k, cur, nxt, mem, blk, want, loaded, allowed>>

----------------------------------------------------------------------------
(***************************************************************************)
(* xml_storage_validate: the data block of the one dirty header, if its    *)
(* checksum matches, becomes the daemon's configuration file.              *)
(***************************************************************************)
\* Mutant: the checksum is not compared.
Valid_NoCrc(h) == Fetched(h, {}) /\ hdr[h].start \in Blocks

Valid(h) == /\ Fetched(h, {})
            /\ hdr[h].start \in Blocks
            /\ dat[hdr[h].start] = hdr[h].sum

Validate ==
    /\ pc = "validate"
    /\ \E h \in Headers :
          /\ Valid(h)
          /\ loaded' = dat[hdr[h].start]
    /\ allowed' = {c \in Configs : loaded' = Whole(c)}
    /\ pc' = "run"
    /\ UNCHANGED <<media, k, half, cur, nxt, mem, blk, todo, want>>

ValidateFails ==
    /\ pc = "validate"
    /\ \A h \in Headers : ~Valid(h)
    /\ pc' = "failed"
    /\ UNCHANGED <<media, memory, allowed>>

----------------------------------------------------------------------------
(***************************************************************************)
(* xml_storage_update.                                                     *)
(***************************************************************************)

\* STEP 1 and the reads of STEP 2: h is the current header, i the next one
\* that can be read.  A failing fetch or seek is an early return that leaves
\* everything as it was.
UpdateBegin(c) ==
    /\ pc = "run"
    /\ \E R \in SUBSET Flaky : \E h, i \in Headers \ R :
          /\ Fetched(h, R)
          /\ \A j \in Headers \ R : Distance(h, i) <= Distance(h, j)
          /\ hdr[i].start \in Blocks
          /\ cur' = h /\ nxt' = i
          /\ mem' = [hdr[i] EXCEPT !.dirty = TRUE, !.ondirty = TRUE,
                                   !.sum = Whole(c)]
    /\ want' = c /\ k' = 1 /\ pc' = "updDat"
    /\ allowed' = allowed \cup {c}
    /\ UNCHANGED <<media, half, blk, todo, loaded>>

\* Mutant: only the first piece of the block is written.
UpdateData_OnePiece ==
    /\ pc = "updDat"
    /\ Programmable
    /\ dat' = [dat EXCEPT ![mem.start][k] = want]
    /\ half' = FALSE /\ k' = 0 /\ pc' = "updNew"
    /\ UNCHANGED <<file, hdr, cur, nxt, mem, blk, todo, want, loaded, allowed>>

UpdateData ==
    /\ pc = "updDat"
    /\ WriteChunk("updNew")
    /\ UNCHANGED <<file, hdr, cur, nxt, mem, blk, todo, want, loaded, allowed>>

\* The new header becomes dirty + ONDIRTY; then the old one is fetched.
UpdateNewHeader ==
    /\ pc = "updNew"
    /\ WriteHeader(nxt, mem)
    /\ pc' = "updOld"
    /\ mem' = [hdr'[cur] EXCEPT !.dirty = FALSE, !.ondirty = FALSE]
    /\ UNCHANGED <<file, dat, k, cur, nxt, blk, todo, want, loaded, allowed>>

\* STEP 3: the old header is no longer dirty; then the new one is fetched.
UpdateOldHeader ==
    /\ pc = "updOld"
    /\ WriteHeader(cur, mem)
    /\ pc' = "updClr"
    /\ mem' = [hdr'[nxt] EXCEPT !.ondirty = FALSE]
    /\ UNCHANGED <<file, dat, k, cur, nxt, blk, todo, want, loaded, allowed>>

\* STEP 4: the ONDIRTY flag is cleared and the update returns 0.
UpdateClear ==
    /\ pc = "updClr"
    /\ WriteHeader(nxt, mem)
    /\ pc' = "run"
    /\ allowed' = {want}
    /\ UNCHANGED <<file, dat, k, cur, nxt, mem, blk, todo, want, loaded>>

\* A read or a write of the update fails: it returns an error, and
\* sync_handler ignores that.
UpdateFail ==
    /\ IOErr /\ pc \in UpdatePcs
    /\ pc' = "run" /\ half' = FALSE
    /\ UNCHANGED <<media, k, cur, nxt, mem, blk, todo, want, loaded, allowed>>

----------------------------------------------------------------------------
(***************************************************************************)
(* Crashes and restarts: the medium survives, the memory does not.         *)
(***************************************************************************)
PhasePcs(p) == CASE p = "init"   -> {"zero", "clean", "cleanHdr", "initHdr", "initDat"}
                 [] p = "fixup"  -> {"fixup", "fixWrite"}
                 [] p = "update" -> UpdatePcs

LoseMemory ==
    /\ pc' = "off"
    /\ k' = 0 /\ half' = FALSE /\ cur' = 0 /\ nxt' = 0 /\ mem' = Unformatted
    /\ blk' = [i \in Headers |-> Unformatted] /\ todo' = {}
    /\ want' = Blank /\ loaded' = NoSum
    /\ UNCHANGED <<media, allowed>>

Crash == (\E p \in CrashIn : pc \in PhasePcs(p)) /\ LoseMemory

PowerOff == pc \in {"run", "failed"} /\ LoseMemory

----------------------------------------------------------------------------
Boot == \/ Create \/ ZeroFill \/ OpenExisting \/ Scan \/ CleanData \/ CleanHeader
        \/ InitHeader \/ InitData \/ Fixup \/ FixupDies \/ FixupWrite
        \/ Validate \/ ValidateFails
Update == \/ UpdateData \/ UpdateNewHeader \/ UpdateOldHeader \/ UpdateClear
Daemon == Boot \/ Update \/ EraseHeader \/ EraseChunk

Next == \/ Daemon
        \/ \E c \in Configs : UpdateBegin(c)
        \/ UpdateFail
        \/ Crash
        \/ PowerOff

\* The init scripts start the daemon at every boot, and the daemon's thread
\* goes on with what it is doing.  Nothing obliges a client to ask for an
\* update, or the power to fail.
Fairness == WF_vars(Daemon)

Spec == Init /\ [][Next]_vars /\ Fairness

----------------------------------------------------------------------------
(***************************************************************************)
(* Properties.                                                             *)
(***************************************************************************)

\* Type correctness of the medium, of the daemon's memory and of the history.
TypeOK ==
    /\ file \in {"absent", "short", "full"}
    /\ hdr \in [Headers -> Header] /\ dat \in [Blocks -> Content]
    /\ pc \in {"off", "zero", "scan", "clean", "cleanHdr", "fixup", "validate",
               "run", "failed"} \cup HeaderPcs \cup DataPcs
    /\ k \in 0 .. (HNUM + CHUNKS) /\ half \in BOOLEAN
    /\ cur \in Headers /\ nxt \in Headers /\ mem \in Header
    /\ blk \in [Headers -> Header] /\ todo \subseteq Headers
    /\ want \in Configs \cup {Blank} /\ loaded \in Content \cup {NoSum}
    /\ allowed \subseteq Configs

\* With the header array H, xml_storage_validate would load c.
Loads(H, c) == \E h \in Headers :
    /\ \A i \in Headers : H[i].dirty <=> i = h
    /\ H[h].start \in Blocks
    /\ H[h].sum = Whole(c) /\ dat[H[h].start] = Whole(c)

\* Should the power fail now, the next boot would load c.
BootsTo(c) == /\ ~Fatal
              /\ \A i \in Broken : HasClosingTag(Start(i))
              /\ Loads(FixedUp, c)

\* While _xml_storage_fixup writes its copies back, the copies say what it is.
WouldLoad(c) == IF pc = "fixWrite" THEN Loads(blk, c) ELSE BootsTo(c)

\* Crash safety: once a configuration is installed, at every moment of an
\* update (each media write of xml_storage_update, erase and program apart)
\* a restart finds a complete configuration, the old one or the new one, and
\* after xml_storage_update has returned 0 only the new one.
Recoverable == allowed # {} => \E c \in allowed : WouldLoad(c)

\* What xml_storage_validate hands to the daemon is never a mixture of two
\* configurations, nor one that was replaced by an acknowledged update,
\* however often an update or a repair was cut short.
OldOrNew ==
    [][(pc = "validate" /\ pc' = "run") =>
           \E c \in allowed : loaded' = Whole(c)]_vars

\* storage.h: "Just one of 4 headers is useful": when the repair is over,
\* exactly one header is dirty.
OneUsefulHeader ==
    pc \in {"validate", "run"} /\ allowed # {} /\ ~IOErr =>
        \E h \in Headers : Fetched(h, {})

\* storage.h, header management 4: the header and the data block are
\* switched together, so an update never writes into the data block that
\* holds the current configuration.
SwitchesData == pc = "updDat" => mem.start # hdr[cur].start

\* A restart never ends in a daemon that gives up: neither the fatal exit of
\* the repair nor the failing validation is reached after update crashes.
NeverFails == pc # "failed"

\* Every boot ends with a loaded configuration.
BootsUp == (pc = "off") ~> (pc = "run")

\* The configuration a boot would load; Blank before the first one is
\* installed.
Value == IF \E c \in allowed : WouldLoad(c)
         THEN CHOOSE c \in allowed : WouldLoad(c)
         ELSE Blank

\* An update takes effect in one step, the write of the new header (on an MTD
\* already its erase), and nothing takes it back: no other media write of
\* xml_storage_update, _xml_storage_fixup or a restart changes what a boot
\* would load.
SwitchesOnce ==
    [][allowed # {} /\ Value' # Value => pc = "updNew" /\ Value' = want]_vars

\* The storage implements a register that survives crashes, whose value is
\* what a boot would load.
Register == INSTANCE ConfigRegister WITH value <- Value

ImplementsRegister == Register!RegSpec
============================================================================
