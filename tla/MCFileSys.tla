------------------------------ MODULE MCFileSys ------------------------------
(* FileSys on a volume of 20 blocks of 5 cells.                            *)
EXTENDS FileSys

Member(arch, size) == [arch |-> arch, size |-> size]

\* A nucleus and a named saved system of two blocks, a text file of one
\* record; a deck that puts the directory into a second block, with a file
\* the installer skips, a boot block and a text file whose second record
\* crosses a block.
MCArchives ==
  {<<Member("hvf", 7), Member("8ball", 6), Member("system.config", 2)>>,
   <<Member("eckd.rto", 2), Member("readme", 3), Member("hvf.directory", 5)>>}

Formatted(extra, used) ==
  LET Slice(i) == {bit \in 0..(W - 1) : (i * W) + bit + 1 \in used}
      dir == [c \in Cells |->
                CASE c = 0 -> Fst(DIRECTOR, 1, DOP0, 1, 2 + Cardinality(extra), 0)
                  [] c = 1 -> Fst(ALLOCMAP, DBSIZ, MAP0, 1, 1, 0)
                  [] c = 2 /\ extra # {} -> Fst("PROFILE EXEC", 3, MAP0 + 1, 1, 1, 0)
                  [] OTHER -> Blank]
      On(lba) == CASE lba = EDF_LABEL_BLOCK_NO -> [BlankBlock EXCEPT ![0] = [dop |-> DOP0]]
                   [] lba = DOP0 -> dir
                   [] lba = MAP0 -> [i \in Cells |-> [bits |-> Slice(i)]]
                   [] OTHER -> BlankBlock
  IN  [p \in Places |-> On(CHOOSE lba \in 1..NBLOCKS : Place(lba) = p)]

\* A new volume, one that holds another file, one that is almost full, and
\* one without a label.
MCVacant == {Formatted({}, 1..MAP0), Formatted({"PROFILE EXEC"}, 1..(MAP0 + 1)),
             Formatted({}, 1..(NBLOCKS - 4)), [p \in Places |-> BlankBlock]}

Symmetry == Permutations(Tasks)

MCOps == {[kind |-> "nss", name |-> "8BALL NSS"],
          [kind |-> "rec", name |-> "SYSTEM CONFIG", recno |-> 0],
          [kind |-> "rec", name |-> "HVF DIRECT", recno |-> 0]}
=============================================================================
