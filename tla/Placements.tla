---------------------------- MODULE Placements ----------------------------
(***************************************************************************)
(* What the metadata store promises, without its tables: every region has  *)
(* at most one override of a path (own), all regions share one baseline of *)
(* it (base), and a commit publishes the rows of one region in one step.   *)
(* History, read index, transactions, crashes and the start-up rebuild are *)
(* not visible here.                                                       *)
(***************************************************************************)
CONSTANTS Servers, Paths, Row, NoRow

VARIABLES own,   \* <<server, path>> -> the region's override, or NoRow
          base   \* path -> the shared baseline, or NoRow

\* A placement of region s for path p, as an override or as the baseline.
IsPlacement(r, s, p, override) ==
    r \in Row /\ r.server = s /\ r.path = p /\ r.override = override

PlacementInit ==
    /\ own \in [Servers \X Paths -> Row \cup {NoRow}]
    /\ base \in [Paths -> Row \cup {NoRow}]

\* Region s may move the baseline to a row of its own and set its override;
\* it gives an override up only for a baseline that it put there itself.
Publish(s) ==
    /\ \A o \in Servers \ {s}, p \in Paths : own'[<<o, p>>] = own[<<o, p>>]
    /\ \A p \in Paths : base'[p] # base[p] => IsPlacement(base'[p], s, p, FALSE)
    /\ \A p \in Paths : own'[<<s, p>>] # own[<<s, p>>] =>
          \/ IsPlacement(own'[<<s, p>>], s, p, TRUE)
          \/ own'[<<s, p>>] = NoRow /\ IsPlacement(base'[p], s, p, FALSE)

PlacementNext == \E s \in Servers : Publish(s)

PlacementSpec == PlacementInit /\ [][PlacementNext]_<<own, base>>

\* What region s is served for path p.
Answer(s, p) == IF own[<<s, p>>] # NoRow THEN own[<<s, p>>] ELSE base[p]

=============================================================================
