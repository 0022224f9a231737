---------------------------- MODULE MCRiskScore ----------------------------
(* A small instance of RiskScore and Overview for TLC. *)
EXTENDS Overview, TLC

\* Countries that differ in pace and in energy, with either sub-signal missing.
MCEnergy ==
    {m \in Metrics :
        /\ m.pace \in {0, 1} /\ m.volatility = None /\ m.coupling = None
        /\ m.energy # None =>
            <<m.energy.low_carbon, m.energy.momentum>> \in
                {<<0, None>>, <<None, 1>>, <<0, 1>>, <<1, 1>>}}

\* Countries whose history is too short for anything, for all but the pace, or
\* for nothing; only one without a history may have no energy row.
MCCore ==
    {m \in Metrics :
        /\ m.volatility \in {0, None} /\ m.coupling = m.volatility
        /\ (m.forward = None) <=> (m.volatility = None)
        /\ m.energy \in {[low_carbon |-> 0, momentum |-> None], None}
        /\ m.energy = None => m.pace = None}

MCKnown == MCEnergy \cup MCCore

\* Countries are interchangeable.
Symmetry == Permutations(Countries)
=============================================================================
