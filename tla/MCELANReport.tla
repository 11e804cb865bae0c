---------------------------- MODULE MCELANReport ----------------------------
(***************************************************************************)
(* Instances of ELANReport for TLC.                                        *)
(***************************************************************************)
EXTENDS ELANReport, Sequences, TLC

MCReport(len, id, data) ==
  [len |-> len,
   bytes |-> [o \in Offset |-> IF o = ETP_REPORT_ID_OFFSET THEN id
                              ELSE IF o - 2 \in DOMAIN data THEN data[o - 2] ELSE 0]]

(* Of a touch: the contacts, then the data of each, up to the first bytes  *)
(* that are not zero.  The corner of the pad, and one step over it.        *)
Corner == <<183, 236, 96, 0, 0>>
OverX  == <<183, 237, 96, 0, 0>>
OverY  == <<183, 236, 97, 0, 0>>

MCReports ==
  {MCReport(32, ETP_REPORT_ID, d) : d \in
     {<<0>>, <<9>> \o Corner, <<16>> \o Corner, <<8>> \o OverY, <<24>> \o OverX \o Corner,
      <<24, 0, 7, 9>>}}
  \cup {MCReport(32, ETP_TP_REPORT_ID, <<0, a, a, 6, 5, 5>>) : a \in {0, 128}}
  \cup {MCReport(31, ETP_REPORT_ID, <<8>> \o Corner)}

ThreadSymmetry == Permutations(Thread)

=============================================================================
