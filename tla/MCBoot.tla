------------------------------- MODULE MCBoot -------------------------------
(* One record per kind of chip, mode and revision that takes a different   *)
(* path; the images have sizes around one and two blocks.                  *)
EXTENDS Boot

K(chip, mode, rev, sub, mcu, h, adap, set, size, slow) ==
  [chip |-> chip, mode |-> mode, rev |-> rev, sub |-> sub, mcu |-> mcu, h |-> h,
   adap |-> adap, set |-> set, size |-> size, slow |-> slow]
MCConfigs ==
  {K("D80", Normal, U01, 0, FALSE, FALSE, FALSE, FALSE, 1, FALSE),
   K("8800", Normal, U02, 0, FALSE, FALSE, TRUE, FALSE, 3, FALSE),
   K("8800", RfTest, U03, 0, FALSE, FALSE, FALSE, TRUE, 2, FALSE),
   K("8800", BleScan, U03, 0, FALSE, FALSE, FALSE, TRUE, 4, FALSE),
   K("8800", AdFilter, U02, 0, FALSE, FALSE, FALSE, TRUE, 1, TRUE),
   K("D80", Normal, U01, 0, FALSE, FALSE, FALSE, FALSE, 4, FALSE),
   K("D80", Normal, U02, 0, FALSE, TRUE, TRUE, TRUE, 5, FALSE),
   K("D80", AdFilter, U02, 0, FALSE, TRUE, FALSE, FALSE, 1, FALSE),
   K("X2", Normal, U05, 0, TRUE, FALSE, TRUE, FALSE, 2, FALSE),
   K("X2", RfTest, U03, 0, FALSE, FALSE, FALSE, TRUE, 1, FALSE),
   K("X2", AdFilter, U03, 0, TRUE, FALSE, FALSE, TRUE, 1, FALSE),
   K("DC", Normal, U01, 0, TRUE, FALSE, TRUE, TRUE, 3, FALSE),
   K("DC", Normal, U02, 1, FALSE, FALSE, FALSE, FALSE, 4, FALSE),
   K("DC", Normal, U02, 2, FALSE, TRUE, FALSE, TRUE, 1, FALSE),
   K("DC", RfTest, U02, 1, FALSE, FALSE, FALSE, TRUE, 1, FALSE)}

Scene(k, f, p, s, u) == [chip |-> k, faults |-> f, plugs |-> p, sleeps |-> s, unloads |-> u]
Short == {K("D80", Normal, U01, 0, FALSE, FALSE, FALSE, FALSE, 1, FALSE)}
MCScenes ==
  {Scene(k, 1, 1, 0, 0) : k \in MCConfigs}
  \cup {Scene(k, 0, 1, 1, 1) : k \in Short}
  \cup {Scene(k, 1, 2, 0, 0) : k \in Short}
  \cup {Scene(k, 1, 1, 0, 1) : k \in Short}
=============================================================================
