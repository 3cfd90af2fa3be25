------------------------- MODULE XmlRegisterProofs -------------------------
(***************************************************************************)
(* The storage of XmlStorage implements the register of ConfigRegister,    *)
(* and an update takes effect in one step: proofs from the inductive       *)
(* invariant of XmlStorageProofs.                                          *)
(***************************************************************************)
EXTENDS XmlStorageProofs

USE StorageConstants

----------------------------------------------------------------------------
(***************************************************************************)
(* What a boot would load, in every state.                                 *)
(***************************************************************************)

\* Two configurations that fill the same block are the same.
LEMMA WholeOne == \A c, d : Whole(c) = Whole(d) => c = d
<1> SUFFICES ASSUME NEW c, NEW d, Whole(c) = Whole(d)
             PROVE  c = d
  OBVIOUS
<1>1. 1 \in Chunk
  BY DEF Chunk
<1>2. Whole(c)[1] = c /\ Whole(d)[1] = d
  BY <1>1 DEF Whole
<1> QED BY <1>2

\* A boot would load no more than one configuration.
LEMMA WouldLoadOne == \A c, d : WouldLoad(c) /\ WouldLoad(d) => c = d
<1>1. ASSUME NEW H, NEW c, NEW d, Loads(H, c), Loads(H, d)
      PROVE  c = d
  <2>1. PICK h \in Headers : (\A i \in Headers : H[i].dirty <=> i = h) /\ H[h].sum = Whole(c)
    BY <1>1 DEF Loads
  <2>2. PICK g \in Headers : (\A i \in Headers : H[i].dirty <=> i = g) /\ H[g].sum = Whole(d)
    BY <1>1 DEF Loads
  <2>3. g = h
    BY <2>1, <2>2
  <2> QED BY <2>1, <2>2, <2>3, WholeOne
<1> QED BY <1>1 DEF WouldLoad, BootsTo

\* Hence Value is what a boot would load.
LEMMA ValueIs == \A c \in allowed : WouldLoad(c) => Value = c
BY WouldLoadOne DEF Value

\* The value, by the shape of the medium.
ValueFacts ==
    /\ allowed = {} => Value = Blank
    /\ allowed # {} => Value \in allowed
    /\ \A h \in Headers, c \in allowed : pc # "fixWrite" /\ Rest(hdr, h, c) => Value = c
    /\ \A h \in Headers, c \in allowed : pc = "fixWrite" /\ Rest(blk, h, c) => Value = c
    /\ \A h \in Headers, c \in allowed : pc # "fixWrite" /\ Repairs(h, c) => Value = c
    /\ (pc = "updNew" /\ half) \/ pc \in {"updOld", "updClr"} => Value = want

\* The facts follow from the invariant of the storage.
LEMMA InvValueFacts == IInv => ValueFacts
<1> SUFFICES ASSUME IInv
             PROVE  ValueFacts
  OBVIOUS
<1>0. TypeOK /\ allowed \subseteq Configs
  BY DEF IInv, TypeInv, TypeOK
<1>1. allowed = {} => Value = Blank
  BY DEF Value
<1>2. allowed # {} => Value \in allowed
  BY InvRecoverable, ValueIs DEF Recoverable
<1>3. ASSUME NEW h \in Headers, NEW c \in allowed, pc # "fixWrite", Repairs(h, c)
      PROVE  Value = c
  <2>1. BootsTo(c)
    BY <1>3, RestLoads DEF Repairs, BootsTo
  <2> QED BY <1>3, <2>1, ValueIs DEF WouldLoad
<1>4. ASSUME NEW h \in Headers, NEW c \in allowed, pc # "fixWrite", Rest(hdr, h, c)
      PROVE  Value = c
  BY <1>0, <1>3, <1>4, RepairRest
<1>5. ASSUME NEW h \in Headers, NEW c \in allowed, pc = "fixWrite", Rest(blk, h, c)
      PROVE  Value = c
  BY <1>5, RestLoads, ValueIs DEF WouldLoad
<1>6. ASSUME (pc = "updNew" /\ half) \/ pc \in {"updOld", "updClr"}
      PROVE  Value = want
  <2>1. cur \in Headers /\ nxt \in Headers /\ want \in allowed /\ want \in Configs
    BY <1>0, <1>6 DEF TypeOK, IInv, UpdateInv, UpdatePcs
  <2>2. \E c \in Configs : \/ NewErased(cur, nxt, c, want) \/ BothDirty(cur, nxt, c, want)
                           \/ OldErased(cur, nxt, c, want)
                           \/ Switched(nxt, want) \/ ClearErased(nxt, want)
    BY <1>0, <1>6, <2>1 DEF IInv, UpdateInv
  <2>3. Repairs(nxt, want)
    BY <1>0, <2>1, <2>2, NewShapeRepairs
  <2>4. pc # "fixWrite"
    BY <1>6
  <2> QED BY <1>3, <2>1, <2>3, <2>4
<1> QED BY <1>1, <1>2, <1>3, <1>4, <1>5, <1>6 DEF ValueFacts

\* The same after a step.
LEMMA InvValueFactsNext == IInv' => ValueFacts'
BY InvValueFacts, PTL

\* Outside the repair the value depends on the medium only.
LEMMA MediumKept ==
    ASSUME UNCHANGED <<hdr, dat, allowed>>, pc # "fixWrite", pc' # "fixWrite"
    PROVE  Value' = Value
<1>1. \A c : WouldLoad(c)' <=> WouldLoad(c)
  BY DEF WouldLoad, BootsTo, Loads, Fatal, FixedUp, Broken, OnDirty, IsLatest,
         HasLatest, Recover, HasClosingTag, Start
<1> QED BY <1>1 DEF Value

----------------------------------------------------------------------------
(***************************************************************************)
(* What each step does to the value: nothing, it installs the factory      *)
(* configuration, it begins an update, settles one, or switches to it.     *)
(***************************************************************************)
Same     == Value' = Value /\ allowed' = allowed
Installs == allowed = {} /\ Value' = Factory /\ allowed' = {Factory}
Begins   == /\ allowed # {} /\ Value' = Value
            /\ \E c \in Configs : allowed' = allowed \cup {c}
Settles  == allowed # {} /\ Value' = Value /\ allowed' = {Value}
Switches == /\ allowed # {} /\ pc = "updNew" /\ Value' = want
            /\ want \in allowed /\ allowed' = allowed

\* xml_storage_open, a daemon that gives up, crashes and restarts.
LEMMA BootValue ==
    ASSUME IInv,
           \/ Create \/ ZeroFill \/ OpenExisting \/ Scan \/ FixupDies
           \/ ValidateFails \/ Crash \/ PowerOff,
           UpdateCrashesOnly
    PROVE  Same
<1>1. UNCHANGED <<hdr, dat, allowed>>
  BY DEF Create, ZeroFill, OpenExisting, Scan, FixupDies, ValidateFails, Crash, PowerOff,
         LoseMemory, media
<1>2. pc # "fixWrite" /\ pc' # "fixWrite"
  BY DEF Create, ZeroFill, OpenExisting, Scan, FixupDies, ValidateFails, Crash, PowerOff,
         LoseMemory, UpdateCrashesOnly, PhasePcs, UpdatePcs
<1> QED BY <1>1, <1>2, MediumKept DEF Same

\* _xml_storage_clean and _xml_storage_initialize.
LEMMA InstallValue ==
    ASSUME IInv, IInv',
           pc \in {"clean", "cleanHdr", "initHdr", "initDat"},
           \/ CleanData \/ CleanHeader \/ InitHeader \/ InitData
           \/ EraseHeader \/ EraseChunk
    PROVE  Same \/ Installs
<1>1. allowed = {} /\ ValueFacts /\ ValueFacts'
  BY InvValueFacts, InvValueFactsNext DEF IInv, InstallInv
<1>2. CASE allowed' = allowed
  BY <1>1, <1>2 DEF Same, ValueFacts
<1>3. CASE allowed' # allowed
  <2>1. InitData /\ allowed' = {want} /\ want = Factory
    BY <1>3 DEF CleanData, CleanHeader, InitHeader, InitData, EraseHeader, EraseChunk,
                IInv, InstallInv
  <2> QED BY <1>1, <2>1 DEF ValueFacts, Installs
<1> QED BY <1>2, <1>3

\* _xml_storage_fixup: the copies, and the medium afterwards, give what the
\* medium gave before.
LEMMA FixupValue ==
    ASSUME IInv, IInv', Fixup
    PROVE  Same
<1>0. /\ pc = "fixup" /\ TypeOK /\ allowed # {} /\ ValueFacts /\ ValueFacts'
      /\ UNCHANGED <<hdr, dat, allowed>>
  BY InvValueFacts, InvValueFactsNext DEF IInv, InstallInv, TypeInv, Fixup, media
<1>1. PICK h \in Headers, c \in allowed : Repairs(h, c)
  BY <1>0, ShapeRepairs DEF IInv, BootInv
<1>2. Value = c
  BY <1>0, <1>1 DEF ValueFacts
<1>3. /\ blk' = FixedUp /\ Rest(FixedUp, h, c)
      /\ \A i \in Headers \ ToBeUpdated : FixedUp[i] = hdr[i]
      /\ pc' = IF ToBeUpdated = {} THEN "validate" ELSE "fixWrite"
  BY <1>1 DEF Repairs, Fixup
<1>4. CASE ToBeUpdated = {}
  <2>1. Rest(hdr, h, c)' /\ pc' = "validate"
    BY <1>0, <1>3, <1>4 DEF Rest, Live, IdleBut, Idle
  <2>2. Value' = c
    BY <1>0, <2>1 DEF ValueFacts
  <2> QED BY <1>0, <1>2, <2>2 DEF Same
<1>5. CASE ToBeUpdated # {}
  <2>1. Rest(blk, h, c)' /\ pc' = "fixWrite"
    BY <1>0, <1>3, <1>5 DEF Rest, Live, IdleBut, Idle
  <2>2. Value' = c
    BY <1>0, <2>1 DEF ValueFacts
  <2> QED BY <1>0, <1>2, <2>2 DEF Same
<1> QED BY <1>4, <1>5

\* The writes of _xml_storage_fixup change nothing a boot would load.
LEMMA FixupWriteValue ==
    ASSUME IInv, IInv', pc = "fixWrite", FixupWrite \/ EraseHeader
    PROVE  Same
<1>0. /\ allowed # {} /\ ValueFacts /\ ValueFacts'
      /\ UNCHANGED <<dat, blk, allowed>>
  BY InvValueFacts, InvValueFactsNext DEF IInv, InstallInv, FixupWrite, EraseHeader
<1>1. PICK h \in Headers, c \in allowed : Rest(blk, h, c)
  BY DEF IInv, BootInv
<1>2. Value = c /\ Rest(blk, h, c)'
  BY <1>0, <1>1 DEF ValueFacts, Rest, Live, IdleBut, Idle
<1>3. CASE pc' = "fixWrite"
  BY <1>0, <1>2, <1>3 DEF ValueFacts, Same
<1>4. CASE pc' # "fixWrite"
  <2>1. FixupWrite /\ todo' = {}
    BY <1>4 DEF FixupWrite, EraseHeader
  <2>2. PICK i \in Headers : /\ NextTodo(i) /\ hdr' = [hdr EXCEPT ![i] = blk[i]]
                             /\ todo' = todo \ {i}
    BY <2>1 DEF FixupWrite, WriteHeader
  <2>3. \A j \in Headers : hdr'[j] = blk[j]
    BY <2>1, <2>2 DEF IInv, BootInv, TypeInv, TypeOK
  <2>4. Rest(hdr, h, c)'
    BY <1>0, <1>2, <2>3 DEF Rest, Live, IdleBut, Idle
  <2> QED BY <1>0, <1>2, <1>4, <2>4 DEF ValueFacts, Same
<1> QED BY <1>3, <1>4

\* xml_storage_validate rules the other value out.
LEMMA ValidateValue ==
    ASSUME IInv, IInv', Validate
    PROVE  Settles
<1>0. /\ pc = "validate" /\ allowed # {} /\ allowed \subseteq Configs
      /\ ValueFacts /\ ValueFacts'
  BY InvValueFacts, InvValueFactsNext
     DEF IInv, InstallInv, TypeInv, TypeOK, Validate
<1>1. PICK h \in Headers, c \in allowed : Rest(hdr, h, c)
  BY <1>0 DEF IInv, BootInv
<1>2. Value = c
  BY <1>0, <1>1 DEF ValueFacts
<1>3. PICK g \in Headers : Valid(g) /\ loaded' = dat[hdr[g].start]
  BY DEF Validate
<1>4. g = h
  BY <1>1, <1>3 DEF Valid, Fetched, DirtyHeaders, Rest, Live, IdleBut, Idle
<1>5. loaded' = Whole(c)
  BY <1>1, <1>3, <1>4 DEF Rest, Live
<1>6. allowed' = {c}
  BY <1>0, <1>5, WholeOne DEF Validate
<1>7. Value' = c
  BY <1>0, <1>6 DEF ValueFacts
<1> QED BY <1>0, <1>2, <1>6, <1>7 DEF Settles

\* The beginning of xml_storage_update.
LEMMA BeginValue ==
    ASSUME IInv, IInv', NEW e \in Configs, UpdateBegin(e)
    PROVE  Begins
<1>0. /\ pc = "run" /\ pc' = "updDat" /\ allowed # {} /\ ValueFacts /\ ValueFacts'
      /\ UNCHANGED <<hdr, dat>> /\ allowed' = allowed \cup {e}
  BY InvValueFacts, InvValueFactsNext DEF IInv, InstallInv, UpdateBegin, media
<1>1. PICK h \in Headers, c \in allowed : Rest(hdr, h, c)
  BY <1>0 DEF IInv, BootInv
<1>2. Rest(hdr, h, c)' /\ c \in allowed'
  BY <1>0, <1>1 DEF Rest, Live, IdleBut, Idle
<1>3. Value = c /\ Value' = c
  BY <1>0, <1>1, <1>2 DEF ValueFacts
<1> QED BY <1>0, <1>3 DEF Begins

\* Its data write.
LEMMA DataValue ==
    ASSUME IInv, IInv', pc = "updDat", UpdateData \/ EraseChunk
    PROVE  Same
<1>0. /\ TypeOK /\ cur \in Headers /\ allowed # {} /\ ValueFacts /\ ValueFacts'
      /\ mem.start = Start(nxt) /\ Start(cur) # Start(nxt)
      /\ Start(cur) \in Blocks /\ Start(nxt) \in Blocks
      /\ UNCHANGED <<hdr, allowed>> /\ pc' # "fixWrite"
  BY InvValueFacts, InvValueFactsNext, StartInBlocks
     DEF IInv, InstallInv, UpdateInv, UpdatePcs, NewImage, TypeInv, TypeOK, UpdateData,
         WriteChunk, EraseChunk
<1>1. PICK c \in allowed : Rest(hdr, cur, c)
  BY DEF IInv, UpdateInv
<1>2. dat'[Start(cur)] = dat[Start(cur)]
  BY <1>0 DEF UpdateData, WriteChunk, EraseChunk, TypeOK
<1>3. \A h \in Headers : h = cur => Rest(hdr, h, c)'
  BY <1>0, <1>1, <1>2 DEF Rest, Live, IdleBut, Idle
<1>4. Value = c /\ Value' = c
  BY <1>0, <1>1, <1>3 DEF ValueFacts
<1> QED BY <1>0, <1>4 DEF Same

\* Its header writes.
LEMMA SwitchValue ==
    ASSUME IInv, IInv', pc \in {"updNew", "updOld", "updClr"},
           UpdateNewHeader \/ UpdateOldHeader \/ UpdateClear \/ EraseHeader
    PROVE  Same \/ Switches \/ Settles
<1>0. /\ allowed # {} /\ want \in allowed /\ ValueFacts /\ ValueFacts'
      /\ want' = want
  BY InvValueFacts, InvValueFactsNext
     DEF IInv, InstallInv, UpdateInv, UpdatePcs, UpdateNewHeader, UpdateOldHeader,
         UpdateClear, EraseHeader
<1>1. CASE pc = "updNew"
  <2>1. allowed' = allowed /\ ((pc' = "updNew" /\ half') \/ pc' = "updOld")
    BY <1>1 DEF UpdateNewHeader, UpdateOldHeader, UpdateClear, EraseHeader
  <2> QED BY <1>0, <1>1, <2>1 DEF ValueFacts, Switches
<1>2. CASE pc \in {"updOld", "updClr"} /\ ~UpdateClear
  <2>1. allowed' = allowed /\ pc' \in {"updOld", "updClr"}
    BY <1>2 DEF UpdateNewHeader, UpdateOldHeader, EraseHeader
  <2> QED BY <1>0, <1>2, <2>1 DEF ValueFacts, Same
<1>3. CASE UpdateClear
  <2>1. pc = "updClr" /\ allowed' = {want}
    BY <1>3 DEF UpdateClear
  <2> QED BY <1>0, <2>1 DEF ValueFacts, Settles
<1> QED BY <1>1, <1>2, <1>3

\* Every step, in the words of the register.
LEMMA ValueStep ==
    ASSUME SwitchingLayout, UpdateCrashesOnly, IInv, [Next]_vars
    PROVE  Same \/ Installs \/ Begins \/ Settles \/ Switches
<1>0. IInv'
  BY InvStep
<1>1. CASE \/ Create \/ ZeroFill \/ OpenExisting \/ Scan \/ FixupDies
           \/ ValidateFails \/ Crash \/ PowerOff
  BY <1>1, BootValue
<1>2. CASE CleanData \/ CleanHeader \/ InitHeader \/ InitData
  <2>1. pc \in {"clean", "cleanHdr", "initHdr", "initDat"}
    BY <1>2 DEF CleanData, CleanHeader, InitHeader, InitData
  <2> QED BY <1>0, <1>2, <2>1, InstallValue
<1>3. CASE Fixup
  BY <1>0, <1>3, FixupValue
<1>4. CASE FixupWrite
  <2>1. pc = "fixWrite"
    BY <1>4 DEF FixupWrite
  <2> QED BY <1>0, <1>4, <2>1, FixupWriteValue
<1>5. CASE Validate
  BY <1>0, <1>5, ValidateValue
<1>6. ASSUME NEW c \in Configs, UpdateBegin(c)
      PROVE  Begins
  BY <1>0, <1>6, BeginValue
<1>7. CASE UpdateData
  <2>1. pc = "updDat"
    BY <1>7 DEF UpdateData
  <2> QED BY <1>0, <1>7, <2>1, DataValue
<1>8. CASE UpdateNewHeader \/ UpdateOldHeader \/ UpdateClear
  <2>1. pc \in {"updNew", "updOld", "updClr"}
    BY <1>8 DEF UpdateNewHeader, UpdateOldHeader, UpdateClear
  <2> QED BY <1>0, <1>8, <2>1, SwitchValue
<1>9. CASE EraseHeader
  <2>1. pc \in HeaderPcs
    BY <1>9 DEF EraseHeader
  <2> QED BY <1>0, <1>9, <2>1, InstallValue, FixupWriteValue, SwitchValue DEF HeaderPcs
<1>10. CASE EraseChunk
  <2>1. pc \in DataPcs
    BY <1>10 DEF EraseChunk
  <2> QED BY <1>0, <1>10, <2>1, InstallValue, DataValue DEF DataPcs
<1>11. ~UpdateFail
  BY DEF UpdateFail, UpdateCrashesOnly
<1>12. CASE UNCHANGED vars
  <2>1. UNCHANGED <<hdr, dat, blk, pc, allowed>>
    BY <1>12 DEF vars
  <2>2. CASE pc # "fixWrite"
    BY <2>1, <2>2, MediumKept DEF Same
  <2>3. CASE pc = "fixWrite"
    BY <2>1, <2>3 DEF Same, Value, WouldLoad, Loads
  <2> QED BY <2>2, <2>3
<1> QED
  BY <1>1, <1>2, <1>3, <1>4, <1>5, <1>6, <1>7, <1>8, <1>9, <1>10, <1>11, <1>12
  DEF Next, Daemon, Boot, Update

----------------------------------------------------------------------------
(***************************************************************************)
(* The theorems.                                                           *)
(***************************************************************************)

\* An update takes effect with the write of the new header, or its erase, and
\* no other step of xml_storage_update, _xml_storage_fixup, a crash or a
\* restart changes what a boot would load.
THEOREM TakesEffectOnce ==
    ASSUME SwitchingLayout, UpdateCrashesOnly
    PROVE  Spec => SwitchesOnce
<1>1. Spec => []IInv
  BY Invariance
<1>2. IInv /\ [Next]_vars =>
        [allowed # {} /\ Value' # Value => pc = "updNew" /\ Value' = want]_vars
  BY ValueStep DEF Same, Installs, Begins, Settles, Switches
<1> QED BY <1>1, <1>2, PTL DEF Spec, SwitchesOnce

\* The storage is a register that survives crashes.
THEOREM StorageIsRegister ==
    ASSUME SwitchingLayout, UpdateCrashesOnly
    PROVE  Spec => ImplementsRegister
<1>1. Spec => []IInv
  BY Invariance
<1>2. Init => Register!RegInit
  BY DEF Init, Register!RegInit, Value
<1>3. ASSUME IInv, [Next]_vars
      PROVE  [Register!RegNext]_<<Value, allowed>>
  <2>1. Same \/ Installs \/ Begins \/ Settles \/ Switches
    BY <1>3, ValueStep
  <2>2. /\ allowed = {} => Value = Blank
        /\ allowed # {} => Value # Blank
    BY <1>3, InvValueFacts DEF ValueFacts, IInv, TypeInv, TypeOK
  <2>3. CASE Same
    BY <2>3 DEF Same
  <2>4. CASE Installs
    BY <2>2, <2>4 DEF Installs, Register!RegNext, Register!Install
  <2>5. CASE Begins
    BY <2>2, <2>5 DEF Begins, Register!RegNext, Register!Begin
  <2>6. CASE Settles
    BY <2>2, <2>6 DEF Settles, Register!RegNext, Register!Settle
  <2>7. CASE Switches
    BY <2>7 DEF Switches, Register!RegNext, Register!Switch
  <2> QED BY <2>1, <2>3, <2>4, <2>5, <2>6, <2>7
<1>4. IInv /\ [Next]_vars => [Register!RegNext]_<<Value, allowed>>
  BY <1>3
<1> QED BY <1>1, <1>2, <1>4, PTL DEF Spec, ImplementsRegister, Register!RegSpec
============================================================================
