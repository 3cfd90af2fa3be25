-------------------------- MODULE UBootConfigProofs --------------------------
(***************************************************************************)
(* Proofs about the media file under more faults than XmlStorageProofs     *)
(* allows: an update or a repair is cut short at any write, any media      *)
(* access of an update fails, and the daemon goes on or gives up.  Then    *)
(* the daemon need not come up (two headers may be ONDIRTY), but whoever   *)
(* reads a dirty header, the boot loader or xml_storage_validate, finds a  *)
(* whole configuration that is the last acknowledged one or newer.         *)
(***************************************************************************)
EXTENDS UBootConfig, XmlStorageProofs, NaturalsInduction, WellFoundedInduction

\* The medium is a file; the first installation is not cut short, and the
\* headers can be read.
FileFaults == ~MTD /\ CrashIn \subseteq {"update", "fixup"} /\ Flaky = {}

----------------------------------------------------------------------------
(***************************************************************************)
(* The inductive invariant.                                                *)
(***************************************************************************)

\* The image r of header i is in its place and, if it is dirty, describes an
\* allowed configuration that its data block holds.
Describes(r, i) ==
    /\ r.magic /\ r.start = Start(i)
    /\ r.dirty => \E c \in allowed : r.sum = Whole(c) /\ dat[Start(i)] = Whole(c)

\* Several headers may be dirty, but each of them can be believed.
MediumInv == allowed # {} =>
    /\ \A i \in Headers : Describes(hdr[i], i)
    /\ \E i \in Headers : hdr[i].dirty

\* The copies that _xml_storage_fixup writes back make no header dirty, and
\* leave one dirty.
RepairInv == pc = "fixWrite" =>
    /\ \A i \in Headers : /\ blk[i].magic /\ blk[i].start = Start(i)
                          /\ blk[i].dirty => hdr[i].dirty /\ blk[i].sum = hdr[i].sum
    /\ \E i \in Headers : blk[i].dirty

\* The headers in S are the dirty ones.
DirtyAre(S) == \A i \in Headers : hdr[i].dirty <=> i \in S

\* An update begins with one dirty header and ends with one, and the header
\* that becomes dirty describes what has been written.
SwitchInv ==
    /\ pc \in UpdatePcs => want \in allowed /\ cur # nxt /\ Start(cur) # Start(nxt)
    /\ pc \in {"updDat", "updNew"} => mem = NewImage /\ DirtyAre({cur})
    /\ pc \in {"updNew", "updOld", "updClr"} => dat[Start(nxt)] = Whole(want)
    /\ pc = "updOld" => /\ mem.magic /\ mem.start = Start(cur) /\ ~mem.dirty
                        /\ DirtyAre({cur, nxt}) /\ hdr[nxt] = NewImage
    /\ pc = "updClr" => /\ mem = [NewImage EXCEPT !.ondirty = FALSE]
                        /\ DirtyAre({nxt})

FileInv == TypeInv /\ InstallInv /\ LoopInv /\ MediumInv /\ RepairInv /\ SwitchInv

----------------------------------------------------------------------------
(***************************************************************************)
(* The first installation, as in XmlStorageProofs.                         *)
(***************************************************************************)
USE StorageConstants

\* Up to the end of the installation the two invariants agree.
LEMMA InstallIsSafe == FileInv /\ allowed = {} => IInv
<1> SUFFICES ASSUME FileInv, allowed = {} PROVE IInv
  OBVIOUS
<1>1. pc \in {"off", "zero", "scan", "clean", "cleanHdr", "initHdr", "initDat"}
  BY DEF FileInv, InstallInv
<1>2. BootInv /\ UpdateInv
  BY <1>1 DEF BootInv, UpdateInv, UpdatePcs
<1> QED BY <1>2 DEF FileInv, IInv

\* At its end the medium is at rest, so every header is as it should be.
LEMMA SafeIsInstall == IInv /\ (allowed = {} \/ pc = "validate") => FileInv
<1> SUFFICES ASSUME IInv, allowed = {} \/ pc = "validate" PROVE FileInv
  OBVIOUS
<1>1. pc \in {"off", "zero", "scan", "clean", "cleanHdr", "initHdr", "initDat", "validate"}
  BY DEF IInv, InstallInv
<1>2. RepairInv /\ SwitchInv
  BY <1>1 DEF RepairInv, SwitchInv, UpdatePcs
<1>3. MediumInv
  <2>1. CASE allowed = {}
    BY <2>1 DEF MediumInv
  <2>2. CASE pc = "validate"
    <3>1. PICK h \in Headers, c \in allowed : Rest(hdr, h, c)
      BY <2>2 DEF IInv, BootInv
    <3>2. \A i \in Headers : Describes(hdr[i], i)
      BY <3>1 DEF Rest, Live, IdleBut, Idle, Describes
    <3>3. hdr[h].dirty
      BY <3>1 DEF Rest, Live
    <3> QED BY <3>2, <3>3 DEF MediumInv
  <2> QED BY <2>1, <2>2
<1> QED BY <1>2, <1>3 DEF FileInv, IInv

\* The same after a step.
LEMMA SafeIsInstallNext == (IInv /\ (allowed = {} \/ pc = "validate") => FileInv)'
BY SafeIsInstall, PTL

\* The invariant holds before the file exists.
LEMMA FileInit == Init => FileInv
<1>1. Init => allowed = {}
  BY DEF Init
<1> QED BY <1>1, InvInit, SafeIsInstall

\* xml_storage_open of a file without configuration, to the last write of
\* _xml_storage_initialize.
LEMMA InstallStep ==
    ASSUME FileFaults, FileInv, TypeInv', allowed = {}, Next
    PROVE  FileInv'
<1> USE DEF media, memory
<1>0. IInv /\ pc \in {"off", "zero", "scan", "clean", "cleanHdr", "initHdr", "initDat"}
  BY InstallIsSafe DEF FileInv, InstallInv
<1>1. CASE Create \/ ZeroFill \/ OpenExisting \/ Scan
  <2>1. IInv'
    BY <1>0, <1>1, OpenStep
  <2>2. allowed' = {}
    BY <1>1 DEF Create, ZeroFill, OpenExisting, Scan
  <2> QED BY <2>1, <2>2, SafeIsInstallNext
<1>2. CASE CleanData \/ CleanHeader
  <2>1. IInv'
    BY <1>0, <1>2, CleanStep
  <2>2. allowed' = {}
    BY <1>2 DEF CleanData, CleanHeader
  <2> QED BY <2>1, <2>2, SafeIsInstallNext
<1>3. CASE InitHeader \/ InitData
  <2>1. IInv'
    <3>1. pc \in {"initHdr", "initDat"}
      BY <1>3 DEF InitHeader, InitData
    <3> QED BY <1>0, <1>3, <3>1, InitializeStep
  <2>2. allowed' = {} \/ pc' = "validate"
    <3>1. InitData => k \in Chunk
      BY DEF InitData, FileInv, LoopInv, DataPcs
    <3> QED BY <1>3, <3>1 DEF InitHeader, InitData, WriteChunk, Chunk
  <2> QED BY <2>1, <2>2, SafeIsInstallNext
<1>4. ~EraseHeader /\ ~EraseChunk
  BY DEF EraseHeader, EraseChunk, FileFaults
<1>5. ~Update /\ ~UpdateFail /\ \A c \in Configs : ~UpdateBegin(c)
  BY <1>0 DEF Update, UpdateData, UpdateNewHeader, UpdateOldHeader, UpdateClear,
              UpdateFail, UpdateBegin, UpdatePcs
<1>6. ~(Fixup \/ FixupDies \/ FixupWrite \/ Validate \/ ValidateFails)
  BY <1>0 DEF Fixup, FixupDies, FixupWrite, Validate, ValidateFails
<1>7. ~Crash /\ ~PowerOff
  BY <1>0 DEF Crash, PowerOff, PhasePcs, FileFaults, UpdatePcs
<1> QED BY <1>1, <1>2, <1>3, <1>4, <1>5, <1>6, <1>7 DEF Next, Daemon, Boot

----------------------------------------------------------------------------
(***************************************************************************)
(* The installed configuration.                                            *)
(***************************************************************************)

\* Where the daemon can be once a configuration is installed.
InstalledPcs == {"off", "scan", "fixup", "fixWrite", "validate", "run", "failed"}
                    \cup UpdatePcs

\* What the invariant says once a configuration is installed.
LEMMA Installed ==
    ASSUME FileFaults, FileInv, allowed # {}
    PROVE  /\ file = "full" /\ half = FALSE /\ pc \in InstalledPcs
           /\ TypeOK /\ MediumInv /\ allowed \subseteq Configs
<1>1. TypeOK /\ MediumInv
  BY DEF FileInv, TypeInv
<1>2. half = FALSE
  BY <1>1 DEF FileInv, LoopInv, FileFaults, TypeOK
<1>3. file = "full" /\ pc \notin {"zero", "clean", "cleanHdr", "initHdr", "initDat"}
  BY <1>1 DEF FileInv, InstallInv, TypeOK
<1>4. pc \in InstalledPcs
  BY <1>1, <1>3 DEF TypeOK, InstalledPcs, HeaderPcs, DataPcs, UpdatePcs
<1> QED BY <1>1, <1>2, <1>3, <1>4 DEF TypeOK

\* Nothing leads back to the installation.
LEMMA StaysInstalled ==
    ASSUME allowed' # {}, file' = "full", half' = FALSE, pc' \in InstalledPcs
    PROVE  InstallInv' /\ (pc' # "updDat" => LoopInv')
BY DEF InstallInv, LoopInv, InstalledPcs, UpdatePcs, DataPcs

\* A step that writes nothing and ends between two updates.
LEMMA QuietStep ==
    ASSUME FileFaults, FileInv, TypeInv', allowed # {}, UNCHANGED <<file, hdr, dat, allowed>>,
           half' \in {half, FALSE}, pc' \in InstalledPcs \ ({"fixWrite"} \cup UpdatePcs)
    PROVE  FileInv'
<1>1. InstallInv' /\ LoopInv'
  <2>1. file = "full" /\ half = FALSE
    BY Installed
  <2> QED BY <2>1, StaysInstalled DEF UpdatePcs
<1>2. MediumInv'
  BY Installed DEF MediumInv, Describes
<1>3. RepairInv' /\ SwitchInv'
  BY DEF RepairInv, SwitchInv, InstalledPcs, UpdatePcs
<1> QED BY <1>1, <1>2, <1>3 DEF FileInv

\* With every header in its place _xml_storage_fixup only clears words.
LEMMA CopiesBelieved ==
    ASSUME FileFaults, FileInv, allowed # {}, ToBeUpdated # {}
    PROVE  /\ \A i \in Headers :
                 /\ FixedUp[i].magic /\ FixedUp[i].start = Start(i)
                 /\ FixedUp[i].dirty => hdr[i].dirty /\ FixedUp[i].sum = hdr[i].sum
           /\ \E i \in Headers : FixedUp[i].dirty
<1>0. TypeOK /\ \A i \in Headers : Describes(hdr[i], i)
  BY Installed DEF MediumInv
<1>1. Broken = {}
  BY <1>0 DEF Broken, Describes
<1>2. OnDirty # {} /\ HasLatest
  BY <1>1 DEF ToBeUpdated, HasLatest
<1>3. \A i \in Headers :
        FixedUp[i] = IF i \in OnDirty THEN [hdr[i] EXCEPT !.ondirty = FALSE]
                                      ELSE [hdr[i] EXCEPT !.dirty = FALSE]
  BY <1>1, <1>2 DEF FixedUp
<1>4. \A i \in Headers : hdr[i] \in Header /\ hdr[i].magic /\ hdr[i].start = Start(i)
  BY <1>0 DEF TypeOK, Describes
<1>5. \A i \in OnDirty : i \in Headers /\ hdr[i].dirty
  BY DEF OnDirty
<1>6. ASSUME NEW i \in OnDirty
      PROVE  /\ FixedUp[i].magic /\ FixedUp[i].start = Start(i) /\ FixedUp[i].dirty
             /\ FixedUp[i].sum = hdr[i].sum
  <2>1. FixedUp[i] = [hdr[i] EXCEPT !.ondirty = FALSE] /\ hdr[i] \in Header
    BY <1>3, <1>4, <1>5
  <2> QED BY <1>4, <1>5, <2>1 DEF Header
<1>7. ASSUME NEW i \in Headers \ OnDirty
      PROVE  FixedUp[i].magic /\ FixedUp[i].start = Start(i) /\ ~FixedUp[i].dirty
  BY <1>3, <1>4 DEF Header
<1> QED BY <1>2, <1>5, <1>6, <1>7

\* Steps 0 to 4 of _xml_storage_fixup.
LEMMA FixupStep ==
    ASSUME FileFaults, FileInv, TypeInv', allowed # {}, Fixup
    PROVE  FileInv'
<1>0. UNCHANGED <<file, hdr, dat, half, allowed>>
  BY DEF Fixup, media
<1>1. CASE pc' \in {"failed", "validate"}
  BY <1>0, <1>1, QuietStep DEF InstalledPcs, UpdatePcs
<1>2. CASE pc' = "fixWrite"
  <2>1. blk' = FixedUp /\ ToBeUpdated # {}
    BY <1>2 DEF Fixup
  <2>2. RepairInv'
    <3>1. \A i \in Headers : /\ blk'[i].magic /\ blk'[i].start = Start(i)
                             /\ blk'[i].dirty => hdr'[i].dirty /\ blk'[i].sum = hdr'[i].sum
      BY <1>0, <2>1, CopiesBelieved
    <3>2. \E i \in Headers : blk'[i].dirty
      BY <2>1, CopiesBelieved
    <3> QED BY <3>1, <3>2 DEF RepairInv
  <2>3. InstallInv' /\ LoopInv'
    BY <1>0, <1>2, Installed, StaysInstalled DEF InstalledPcs
  <2>4. MediumInv' /\ SwitchInv'
    <3>1. MediumInv'
      BY <1>0, Installed DEF MediumInv, Describes
    <3> QED BY <1>2, <3>1 DEF SwitchInv, UpdatePcs
  <2> QED BY <2>2, <2>3, <2>4 DEF FileInv
<1> QED BY <1>1, <1>2 DEF Fixup

\* Step 5 of the repair: a copy is written over its header.
LEMMA FixupWriteStep ==
    ASSUME FileFaults, FileInv, TypeInv', allowed # {}, FixupWrite
    PROVE  FileInv'
<1>0. /\ TypeOK /\ MediumInv /\ file = "full" /\ half = FALSE
      /\ pc = "fixWrite" /\ RepairInv
  BY Installed DEF FileInv, FixupWrite
<1>1. PICK j \in Headers : hdr' = [hdr EXCEPT ![j] = blk[j]] /\ half' = FALSE
  BY DEF FixupWrite, WriteHeader
<1>2. UNCHANGED <<file, dat, blk, allowed>> /\ pc' \in {"validate", "fixWrite"}
  BY DEF FixupWrite
<1>3. \A i \in Headers : hdr'[i] \in {hdr[i], blk[i]}
  BY <1>0, <1>1 DEF TypeOK
<1>4. \A i \in Headers : blk[i].dirty => hdr'[i].dirty /\ hdr'[i].sum = blk[i].sum
  BY <1>0, <1>3 DEF RepairInv
<1>5. \A i \in Headers : Describes(hdr[i], i)'
  <2> SUFFICES ASSUME NEW i \in Headers PROVE Describes(hdr[i], i)'
    OBVIOUS
  <2>1. Describes(hdr[i], i)
    BY <1>0 DEF MediumInv
  <2>2. Describes(blk[i], i)
    BY <1>0, <2>1 DEF RepairInv, Describes
  <2> QED BY <1>2, <1>3, <2>1, <2>2 DEF Describes
<1>6. MediumInv'
  <2>1. PICK i \in Headers : blk[i].dirty
    BY <1>0 DEF RepairInv
  <2>2. hdr'[i].dirty
    BY <1>4, <2>1
  <2> QED BY <1>5, <2>2 DEF MediumInv
<1>7. RepairInv'
  BY <1>0, <1>2, <1>4 DEF RepairInv
<1>8. InstallInv' /\ LoopInv'
  BY <1>0, <1>1, <1>2, StaysInstalled DEF InstalledPcs
<1>9. SwitchInv'
  BY <1>2 DEF SwitchInv, UpdatePcs
<1> QED BY <1>6, <1>7, <1>8, <1>9 DEF FileInv

\* The one dirty header describes what is loaded.
LEMMA ValidLoads ==
    ASSUME FileFaults, FileInv, allowed # {}, NEW h \in Headers, Valid(h)
    PROVE  /\ hdr[h].dirty /\ DirtyAre({h}) /\ hdr[h].start = Start(h)
           /\ \E c \in allowed : hdr[h].sum = Whole(c) /\ dat[Start(h)] = Whole(c)
<1>1. DirtyAre({h}) /\ hdr[h].dirty
  BY DEF Valid, Fetched, DirtyHeaders, DirtyAre
<1> QED BY <1>1, Installed DEF MediumInv, Describes

\* xml_storage_validate: what is loaded is what may be loaded from now on.
LEMMA ValidateStep ==
    ASSUME FileFaults, FileInv, TypeInv', allowed # {}, Validate
    PROVE  FileInv'
<1>0. TypeOK /\ MediumInv /\ file = "full" /\ half = FALSE /\ allowed \subseteq Configs
  BY Installed
<1>1. PICK h \in Headers : Valid(h) /\ loaded' = dat[hdr[h].start]
  BY DEF Validate
<1>2. PICK c \in allowed : hdr[h].sum = Whole(c) /\ dat[Start(h)] = Whole(c)
  BY <1>1, ValidLoads
<1>3. DirtyAre({h}) /\ hdr[h].start = Start(h)
  BY <1>1, ValidLoads
<1>4. /\ UNCHANGED <<file, hdr, dat, half>> /\ pc' = "run"
      /\ allowed' = {e \in Configs : loaded' = Whole(e)}
  BY DEF Validate, media
<1>5. c \in allowed'
  BY <1>0, <1>1, <1>2, <1>3, <1>4
<1>6. \A i \in Headers : Describes(hdr[i], i)'
  BY <1>0, <1>2, <1>3, <1>4, <1>5 DEF MediumInv, Describes, DirtyAre
<1>7. MediumInv'
  BY <1>3, <1>4, <1>6 DEF MediumInv, DirtyAre
<1>8. InstallInv' /\ LoopInv'
  BY <1>0, <1>4, <1>5, StaysInstalled DEF InstalledPcs
<1>9. RepairInv' /\ SwitchInv'
  BY <1>4 DEF RepairInv, SwitchInv, UpdatePcs
<1> QED BY <1>7, <1>8, <1>9 DEF FileInv

\* The beginning of xml_storage_update: the next header is not dirty and has
\* another data block.
LEMMA FileBeginStep ==
    ASSUME SwitchingLayout, FileFaults, FileInv, TypeInv', allowed # {},
           NEW e \in Configs, UpdateBegin(e)
    PROVE  FileInv'
<1>0. TypeOK /\ MediumInv /\ file = "full" /\ half = FALSE
  BY Installed
<1>1. PICK h \in Headers, i \in Headers :
        /\ Fetched(h, {})
        /\ \A j \in Headers : Distance(h, i) <= Distance(h, j)
        /\ cur' = h /\ nxt' = i
        /\ mem' = [hdr[i] EXCEPT !.dirty = TRUE, !.ondirty = TRUE, !.sum = Whole(e)]
  <2>1. SUBSET Flaky = {{}} /\ Headers \ {} = Headers
    BY DEF FileFaults
  <2> QED BY <2>1 DEF UpdateBegin
<1>2. h # i /\ Start(h) # Start(i)
  BY <1>1, NextHasOtherBlock
<1>3. /\ pc' = "updDat" /\ want' = e /\ k' = 1 /\ allowed' = allowed \cup {e}
      /\ UNCHANGED <<file, hdr, dat, half>>
  BY DEF UpdateBegin, media
<1>4. hdr[i] \in Header /\ hdr[i].magic /\ hdr[i].start = Start(i)
  BY <1>0 DEF MediumInv, Describes, TypeOK
<1>5. mem' = NewImage' /\ mem'.start = Start(i)
  BY <1>1, <1>3, <1>4 DEF NewImage, Header
<1>6. DirtyAre({cur})'
  BY <1>1, <1>3 DEF DirtyAre, Fetched, DirtyHeaders
<1>7. SwitchInv'
  BY <1>1, <1>2, <1>3, <1>5, <1>6 DEF SwitchInv
<1>8. MediumInv'
  BY <1>0, <1>3 DEF MediumInv, Describes
<1>9. LoopInv'
  BY <1>0, <1>3, <1>5, StartInBlocks DEF LoopInv, Chunk
<1>10. InstallInv' /\ RepairInv'
  BY <1>0, <1>3, StaysInstalled DEF InstalledPcs, UpdatePcs, RepairInv
<1> QED BY <1>7, <1>8, <1>9, <1>10 DEF FileInv

\* The data write of xml_storage_update: no dirty header has the block.
LEMMA FileDataStep ==
    ASSUME FileFaults, FileInv, TypeInv', allowed # {}, UpdateData
    PROVE  FileInv'
<1>0. /\ TypeOK /\ MediumInv /\ file = "full" /\ half = FALSE /\ pc = "updDat"
      /\ mem = NewImage /\ want \in allowed /\ cur # nxt /\ Start(cur) # Start(nxt)
      /\ DirtyAre({cur}) /\ cur \in Headers /\ nxt \in Headers
      /\ k \in Chunk /\ \A j \in 1 .. k - 1 : dat[mem.start][j] = want
  BY Installed DEF UpdateData, FileInv, SwitchInv, LoopInv, UpdatePcs, DataPcs, TypeOK
<1>1. mem.start = Start(nxt) /\ Start(nxt) \in Blocks /\ Start(cur) \in Blocks
  BY <1>0, StartInBlocks DEF NewImage
<1>2. /\ dat' = [dat EXCEPT ![Start(nxt)][k] = want] /\ half' = FALSE
      /\ IF k < CHUNKS THEN k' = k + 1 /\ pc' = "updDat" ELSE k' = 0 /\ pc' = "updNew"
      /\ UNCHANGED <<file, hdr, cur, nxt, mem, want, allowed>>
  BY <1>0, <1>1 DEF UpdateData, WriteChunk
<1>3. dat'[Start(cur)] = dat[Start(cur)]
  BY <1>0, <1>1, <1>2 DEF TypeOK
<1>4. \A j \in 1 .. k : dat'[Start(nxt)][j] = want
  BY <1>0, <1>1, <1>2 DEF TypeOK, Content, Chunk
<1>5. MediumInv'
  BY <1>0, <1>2, <1>3 DEF MediumInv, Describes, DirtyAre
<1>6. InstallInv' /\ RepairInv' /\ (pc' # "updDat" => LoopInv')
  BY <1>0, <1>2, StaysInstalled DEF InstalledPcs, UpdatePcs, RepairInv
<1>7. NewImage' = NewImage /\ DirtyAre({cur})'
  BY <1>0, <1>2 DEF NewImage, DirtyAre
<1>8. CASE k < CHUNKS
  <2>1. LoopInv'
    BY <1>0, <1>1, <1>2, <1>4, <1>8 DEF LoopInv, DataPcs, Chunk
  <2>2. SwitchInv'
    BY <1>0, <1>2, <1>7, <1>8 DEF SwitchInv
  <2> QED BY <1>5, <1>6, <2>1, <2>2 DEF FileInv
<1>9. CASE ~(k < CHUNKS)
  <2>1. dat'[Start(nxt)] = Whole(want)
    <3>1. dat'[Start(nxt)] \in Content /\ k = CHUNKS
      BY <1>0, <1>1, <1>9 DEF TypeInv, TypeOK, Chunk
    <3> QED BY <1>4, <3>1 DEF Whole, Content, Chunk
  <2>2. SwitchInv'
    BY <1>0, <1>2, <1>7, <1>9, <2>1 DEF SwitchInv
  <2> QED BY <1>2, <1>5, <1>6, <1>9, <2>2 DEF FileInv
<1> QED BY <1>8, <1>9

\* The header that becomes dirty describes the block that has been written.
LEMMA FileNewStep ==
    ASSUME FileFaults, FileInv, TypeInv', allowed # {}, UpdateNewHeader
    PROVE  FileInv'
<1>0. /\ TypeOK /\ MediumInv /\ file = "full" /\ pc = "updNew"
      /\ mem = NewImage /\ want \in allowed /\ cur # nxt /\ Start(cur) # Start(nxt)
      /\ DirtyAre({cur}) /\ cur \in Headers /\ nxt \in Headers
      /\ dat[Start(nxt)] = Whole(want)
  BY Installed DEF UpdateNewHeader, FileInv, SwitchInv, UpdatePcs, TypeOK
<1>1. /\ hdr' = [hdr EXCEPT ![nxt] = NewImage] /\ half' = FALSE /\ pc' = "updOld"
      /\ mem' = [hdr'[cur] EXCEPT !.dirty = FALSE, !.ondirty = FALSE]
      /\ UNCHANGED <<file, dat, cur, nxt, want, allowed>>
  BY <1>0 DEF UpdateNewHeader, WriteHeader
<1>2. hdr'[nxt] = NewImage /\ \A i \in Headers \ {nxt} : hdr'[i] = hdr[i]
  BY <1>0, <1>1 DEF TypeOK
<1>3. /\ NewImage.magic /\ NewImage.dirty /\ NewImage.start = Start(nxt)
      /\ NewImage.sum = Whole(want)
  BY DEF NewImage
<1>4. DirtyAre({cur, nxt})'
  BY <1>0, <1>1, <1>2, <1>3 DEF DirtyAre
<1>5. \A i \in Headers : Describes(hdr[i], i)'
  BY <1>0, <1>1, <1>2, <1>3 DEF MediumInv, Describes
<1>6. MediumInv'
  BY <1>0, <1>1, <1>4, <1>5 DEF MediumInv, DirtyAre
<1>7. mem'.magic /\ mem'.start = Start(cur) /\ ~mem'.dirty
  <2>1. hdr'[cur] \in Header /\ hdr'[cur].magic /\ hdr'[cur].start = Start(cur)
    BY <1>0, <1>1, <1>5 DEF TypeInv, TypeOK, Describes
  <2> QED BY <1>1, <2>1 DEF Header
<1>8. SwitchInv'
  <2>1. NewImage' = NewImage
    BY <1>1 DEF NewImage
  <2> QED BY <1>0, <1>1, <1>2, <1>4, <1>7, <2>1 DEF SwitchInv
<1>9. InstallInv' /\ LoopInv' /\ RepairInv'
  BY <1>0, <1>1, StaysInstalled DEF InstalledPcs, UpdatePcs, RepairInv
<1> QED BY <1>6, <1>8, <1>9 DEF FileInv

\* STEP 3: the old header is cleared, the new one stays.
LEMMA FileOldStep ==
    ASSUME FileFaults, FileInv, TypeInv', allowed # {}, UpdateOldHeader
    PROVE  FileInv'
<1>0. /\ TypeOK /\ MediumInv /\ file = "full" /\ pc = "updOld"
      /\ mem.magic /\ mem.start = Start(cur) /\ ~mem.dirty
      /\ want \in allowed /\ cur # nxt /\ Start(cur) # Start(nxt)
      /\ DirtyAre({cur, nxt}) /\ cur \in Headers /\ nxt \in Headers
      /\ dat[Start(nxt)] = Whole(want) /\ hdr[nxt] = NewImage
  BY Installed DEF UpdateOldHeader, FileInv, SwitchInv, UpdatePcs, TypeOK
<1>1. /\ hdr' = [hdr EXCEPT ![cur] = mem] /\ half' = FALSE /\ pc' = "updClr"
      /\ mem' = [hdr'[nxt] EXCEPT !.ondirty = FALSE]
      /\ UNCHANGED <<file, dat, cur, nxt, want, allowed>>
  BY <1>0 DEF UpdateOldHeader, WriteHeader
<1>2. hdr'[cur] = mem /\ \A i \in Headers \ {cur} : hdr'[i] = hdr[i]
  BY <1>0, <1>1 DEF TypeOK
<1>3. DirtyAre({nxt})'
  BY <1>0, <1>1, <1>2 DEF DirtyAre
<1>4. \A i \in Headers : Describes(hdr[i], i)'
  BY <1>0, <1>1, <1>2 DEF MediumInv, Describes
<1>5. MediumInv'
  BY <1>0, <1>1, <1>3, <1>4 DEF MediumInv, DirtyAre
<1>6. mem' = [NewImage EXCEPT !.ondirty = FALSE]'
  <2>1. mem' = [NewImage EXCEPT !.ondirty = FALSE]
    BY <1>0, <1>1, <1>2
  <2>2. NewImage' = NewImage
    BY <1>1 DEF NewImage
  <2> QED BY <2>1, <2>2
<1>7. SwitchInv'
  BY <1>0, <1>1, <1>3, <1>6 DEF SwitchInv
<1>8. InstallInv' /\ LoopInv' /\ RepairInv'
  BY <1>0, <1>1, StaysInstalled DEF InstalledPcs, UpdatePcs, RepairInv
<1> QED BY <1>5, <1>7, <1>8 DEF FileInv

\* STEP 4: the update returns 0, and no header describes anything older.
LEMMA FileClearStep ==
    ASSUME FileFaults, FileInv, TypeInv', allowed # {}, UpdateClear
    PROVE  FileInv'
<1>0. /\ TypeOK /\ MediumInv /\ file = "full" /\ pc = "updClr"
      /\ mem = [NewImage EXCEPT !.ondirty = FALSE]
      /\ want \in allowed /\ DirtyAre({nxt}) /\ nxt \in Headers
      /\ dat[Start(nxt)] = Whole(want)
  BY Installed DEF UpdateClear, FileInv, SwitchInv, UpdatePcs, TypeOK
<1>1. /\ hdr' = [hdr EXCEPT ![nxt] = mem] /\ half' = FALSE /\ pc' = "run"
      /\ allowed' = {want} /\ UNCHANGED <<file, dat, nxt, want>>
  BY <1>0 DEF UpdateClear, WriteHeader
<1>2. hdr'[nxt] = mem /\ \A i \in Headers \ {nxt} : hdr'[i] = hdr[i]
  BY <1>0, <1>1 DEF TypeOK
<1>3. mem.magic /\ mem.dirty /\ mem.start = Start(nxt) /\ mem.sum = Whole(want)
  BY <1>0 DEF NewImage
<1>4. \A i \in Headers : Describes(hdr[i], i)'
  BY <1>0, <1>1, <1>2, <1>3 DEF MediumInv, Describes, DirtyAre
<1>5. MediumInv'
  BY <1>0, <1>2, <1>3, <1>4 DEF MediumInv
<1>6. InstallInv' /\ LoopInv' /\ RepairInv' /\ SwitchInv'
  BY <1>0, <1>1, StaysInstalled DEF InstalledPcs, UpdatePcs, RepairInv, SwitchInv
<1> QED BY <1>5, <1>6 DEF FileInv

\* The invariant is preserved by every step, those of a daemon that is cut
\* short, meets an error or gives up included.
LEMMA FileStep ==
    ASSUME SwitchingLayout, FileFaults, FileInv, [Next]_vars
    PROVE  FileInv'
<1>0. TypeInv'
  BY TypeStep DEF FileInv
<1>1. CASE UNCHANGED vars
  <2>1. /\ InstallInv' = InstallInv /\ LoopInv' = LoopInv
    BY <1>1 DEF vars, InstallInv, LoopInv, Broken
  <2>2. MediumInv' = MediumInv /\ RepairInv' = RepairInv
    BY <1>1 DEF vars, MediumInv, Describes, RepairInv
  <2>3. SwitchInv' = SwitchInv
    BY <1>1 DEF vars, SwitchInv, DirtyAre, NewImage
  <2> QED BY <1>0, <2>1, <2>2, <2>3 DEF FileInv
<1>2. CASE Next /\ allowed = {}
  BY <1>0, <1>2, InstallStep
<1>3. CASE Next /\ allowed # {}
  <2> USE DEF media, memory
  <2>0. file = "full" /\ half = FALSE /\ pc \in InstalledPcs /\ Broken # Headers
    <3>1. \A i \in Headers : hdr[i].magic
      BY <1>3, Installed DEF MediumInv, Describes
    <3>2. 0 \in Headers
      BY DEF Headers
    <3> QED BY <1>3, <3>1, <3>2, Installed DEF Broken
  <2>1. CASE OpenExisting \/ Scan \/ FixupDies \/ ValidateFails
    <3>1. /\ UNCHANGED <<file, hdr, dat, allowed, half>>
          /\ pc' \in {"scan", "failed", "fixup"}
      BY <2>0, <2>1 DEF OpenExisting, Scan, FixupDies, ValidateFails
    <3> QED BY <1>0, <1>3, <3>1, QuietStep DEF InstalledPcs, UpdatePcs
  <2>2. CASE UpdateFail \/ Crash \/ PowerOff
    <3>1. /\ UNCHANGED <<file, hdr, dat, allowed>> /\ half' = FALSE
          /\ pc' \in {"run", "off"}
      BY <2>2 DEF UpdateFail, Crash, PowerOff, LoseMemory
    <3> QED BY <1>0, <1>3, <3>1, QuietStep DEF InstalledPcs, UpdatePcs
  <2>3. ~(Create \/ ZeroFill \/ CleanData \/ CleanHeader \/ InitHeader \/ InitData)
    BY <2>0 DEF Create, ZeroFill, CleanData, CleanHeader, InitHeader, InitData,
                InstalledPcs, UpdatePcs
  <2>4. ~EraseHeader /\ ~EraseChunk
    BY DEF EraseHeader, EraseChunk, FileFaults
  <2>5. CASE Fixup
    BY <1>0, <1>3, <2>5, FixupStep
  <2>6. CASE FixupWrite
    BY <1>0, <1>3, <2>6, FixupWriteStep
  <2>7. CASE Validate
    BY <1>0, <1>3, <2>7, ValidateStep
  <2>8. ASSUME NEW c \in Configs, UpdateBegin(c) PROVE FileInv'
    BY <1>0, <1>3, <2>8, FileBeginStep
  <2>9. CASE UpdateData
    BY <1>0, <1>3, <2>9, FileDataStep
  <2>10. CASE UpdateNewHeader
    BY <1>0, <1>3, <2>10, FileNewStep
  <2>11. CASE UpdateOldHeader
    BY <1>0, <1>3, <2>11, FileOldStep
  <2>12. CASE UpdateClear
    BY <1>0, <1>3, <2>12, FileClearStep
  <2> QED BY <1>3, <2>1, <2>2, <2>3, <2>4, <2>5, <2>6, <2>7, <2>8, <2>9, <2>10, <2>11,
             <2>12
          DEF Next, Daemon, Boot, Update
<1> QED BY <1>1, <1>2, <1>3

\* In every reachable state of a file under these faults each dirty header
\* describes an allowed configuration, and one header is dirty.
THEOREM FileInvariance ==
    ASSUME SwitchingLayout, FileFaults
    PROVE  Spec => []FileInv
<1>1. FileInv /\ [Next]_vars => FileInv'
  BY FileStep
<1> QED BY FileInit, <1>1, PTL DEF Spec

----------------------------------------------------------------------------
(***************************************************************************)
(* The theorems.                                                           *)
(***************************************************************************)

\* The loop of scan_config_block ends at the first header that qualifies.
LEMMA FirstHeader ==
    ASSUME NEW S \in SUBSET Nat, S # {}
    PROVE  \E x \in S : \A y \in S : ~(y < x)
<1> DEFINE R == {p \in Nat \X Nat : p[1] < p[2]}
<1>1. IsWellFoundedOn(R, Nat)
  <2>1. R = OpToRel(<, Nat)
    BY DEF OpToRel
  <2> QED BY <2>1, NatLessThanWellFounded
<1> HIDE DEF R
<1>2. PICK x \in S : \A y \in S : <<y, x>> \notin R
  BY <1>1, WFMin
<1>3. ASSUME NEW y \in S PROVE ~(y < x)
  <2>1. x \in Nat /\ y \in Nat /\ <<y, x>> \notin R
    BY <1>2
  <2>2. <<y, x>>[1] = y /\ <<y, x>>[2] = x /\ <<y, x>> \in Nat \X Nat
    BY <2>1
  <2> QED BY <2>1, <2>2 DEF R
<1> QED BY <1>3

\* The boot loader's choice is one of the dirty headers.
LEMMA InvProbesWhole ==
    ASSUME FileFaults, FileInv
    PROVE  ProbesWhole
<1> SUFFICES ASSUME allowed # {}
             PROVE  \E i \in Headers :
                       Probed(i) /\ \E c \in allowed : dat[ProbedBlock(i)] = Whole(c)
  BY DEF ProbesWhole
<1>0. MediumInv
  BY DEF FileInv
<1> DEFINE D == {i \in Headers : hdr[i].magic /\ hdr[i].dirty}
<1>1. D \in SUBSET Nat /\ D # {}
  BY <1>0 DEF Headers, MediumInv, Describes
<1>2. PICK i \in D : \A j \in D : ~(j < i)
  BY <1>1, FirstHeader
<1>3. i \in Headers /\ Probed(i)
  BY <1>2 DEF Probed
<1>4. \E c \in allowed : dat[Start(i)] = Whole(c)
  BY <1>0, <1>2 DEF MediumInv, Describes
<1>5. ProbedBlock(i) = Start(i)
  BY DEF ProbedBlock, Start
<1> QED BY <1>3, <1>4, <1>5

\* Whenever the power failed, in an update or in a repair, and whatever
\* access of an update failed before, `xconfig probe' finds a whole
\* configuration that the daemon may load as well.
THEOREM ProbeFindsWhole ==
    ASSUME SwitchingLayout, FileFaults
    PROVE  Spec => []ProbesWhole
<1>1. Spec => []FileInv
  BY FileInvariance
<1>2. FileInv => ProbesWhole
  BY InvProbesWhole
<1> QED BY <1>1, <1>2, PTL

\* A daemon that comes up after such a history has loaded the configuration
\* last acknowledged or that of an update begun since, never a mixture.
THEOREM FileLoadsOldOrNew ==
    ASSUME SwitchingLayout, FileFaults
    PROVE  Spec => OldOrNew
<1>1. Spec => []FileInv
  BY FileInvariance
<1>2. ASSUME FileInv, [Next]_vars, pc = "validate", pc' = "run"
      PROVE  \E c \in allowed : loaded' = Whole(c)
  <2>1. Validate
    BY <1>2, OnlyValidateRuns
  <2>2. PICK h \in Headers : Valid(h) /\ loaded' = dat[hdr[h].start]
    BY <2>1 DEF Validate
  <2>3. allowed # {}
    BY <1>2 DEF FileInv, InstallInv
  <2> QED BY <1>2, <2>2, <2>3, ValidLoads
<1>3. FileInv /\ [Next]_vars =>
        [(pc = "validate" /\ pc' = "run") => \E c \in allowed : loaded' = Whole(c)]_vars
  BY <1>2
<1> QED BY <1>1, <1>3, PTL DEF Spec, OldOrNew
=============================================================================
