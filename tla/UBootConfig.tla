----------------------------- MODULE UBootConfig -----------------------------
(***************************************************************************)
(* The boot loader's view of the configuration storage: `xconfig probe' of *)
(* the U-Boot patch (boards/rpi3/boot/patch/xconfig.c, the same code for   *)
(* rpi4).  The boot script loads the media file from its ext4 partition    *)
(* (rpi.h, loadcfg) before the daemon runs, and it is only read: the       *)
(* first header with the magic and a dirty word decides, no checksum is    *)
(* compared, ONDIRTY is not looked at and nothing is repaired.  The layout *)
(* is compiled in, four headers and two data blocks.                       *)
(***************************************************************************)
EXTENDS XmlStorage

\* scan_config_block breaks its loop at header i.
Probed(i) ==
    /\ hdr[i].magic /\ hdr[i].dirty
    /\ \A j \in Headers : j < i => ~(hdr[j].magic /\ hdr[j].dirty)

\* Mutant: the headers are thought to share blocks in pairs.
ProbedBlock_Paired(i) == i \div BNUM

\* daddr: the block in the header's turn, its start field is not used.
ProbedBlock(i) == i % BNUM

\* Whatever moment the power failed at while the daemon wrote, what the boot
\* loader finds in the media file is a whole configuration, one that the
\* daemon may load as well: with two dirty headers and no look at ONDIRTY it
\* may be the old one where the daemon's repair takes the new one.
ProbesWhole ==
    ~MTD /\ pc = "off" /\ allowed # {} =>
        \E i \in Headers : Probed(i) /\ \E c \in allowed : dat[ProbedBlock(i)] = Whole(c)
=============================================================================
