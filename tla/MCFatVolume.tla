---------------------------- MODULE MCFatVolume ----------------------------
\* A volume whose FAT takes two sectors, and a directory of two entries in two
\* sectors.
EXTENDS FatVolume, TLC

MCFatSector == [c \in Clusters |-> IF c < NClusters + 1 THEN "FAT1" ELSE "FAT2"]
MCDirSector == [s \in Entries |-> IF s = 1 THEN "dir1" ELSE "dir2"]
MCSymmetry  == Permutations(Names)
=============================================================================
