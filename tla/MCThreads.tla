----------------------------- MODULE MCThreads -----------------------------
(***************************************************************************)
(* Instances of Threads for TLC, and a variant in which every script       *)
(* performs only MaxOps operations before all its functions return.        *)
(***************************************************************************)
EXTENDS Threads, TLC

CONSTANT MaxOps  \* bound: operations other than returns, in the runs that use Fuel

\* Threads of one kind are interchangeable.
Symmetry == Permutations(HostThread) \union Permutations(ScriptThread)

-----------------------------------------------------------------------------
VARIABLE fuel  \* operations the scripts may still perform

FuelInit == Init /\ fuel = MaxOps

\* Every operation other than a return uses fuel.
FuelNext ==
  \/ (Operate \/ \E t \in HostThread : Execute(t)) /\ fuel > 0 /\ fuel' = fuel - 1
  \/ Return /\ UNCHANGED fuel

FuelSpec == FuelInit /\ [][FuelNext]_<<vars, fuel>> /\ WF_<<vars, fuel>>(FuelNext)

\* The same without a budget.
NoFuelSpec == FuelInit /\ [][Next /\ UNCHANGED fuel]_<<vars, fuel>>

\* If all the functions of a script end, the loop ends: the returns of the
\* threads lead control back to the host, whatever calls they are nested in.
HostRegainsControl == (vm = "running") ~> (vm # "running")
=============================================================================
