------------------------------ MODULE ToolLists ------------------------------
(***************************************************************************)
(* How hydra's tools join those of the child: mergeTools of                *)
(* src/internal/proxy/tools.go.  A tool is told by its name; the merged    *)
(* list is given as the set of its entries, as it is sorted by name and    *)
(* what matters is who has an entry in it and under which name.            *)
(***************************************************************************)
EXTENDS Naturals, Sequences

AcceptedPolicies == {"", "error", "warn", "disable_hydra_tool"}

Offers(list, name) == \E i \in DOMAIN list : list[i] = name

\* The name is in childSet when the i-th of hydra's tools is looked at: under "warn"
\* an earlier tool of that name has taken it out.
InChildSet(child, hydra, policy, i) ==
    /\ Offers(child, hydra[i])
    /\ policy = "warn" => \A j \in 1 .. i - 1 : hydra[j] # hydra[i]

\* The two errors of mergeTools.
BadPolicy(policy) == policy \notin AcceptedPolicies

\* Mutated form: only the child's first tool is compared.
CollisionOfFirst(child, hydra, policy) ==
    policy = "error" /\ child # <<>> /\ \E i \in DOMAIN hydra : child[1] = hydra[i]

Collision(child, hydra, policy) ==
    policy = "error" /\ \E i \in DOMAIN hydra : Offers(child, hydra[i])

Entry(owner, place, name) == [owner |-> owner, place |-> place, name |-> name]

KeptOfHydra(child, hydra, policy) ==
    {Entry("hydra", i, hydra[i]) :
        i \in {j \in DOMAIN hydra : policy \in {"warn", "disable_hydra_tool"}
                                        => ~InChildSet(child, hydra, policy, j)}}

KeptOfChild(child, hydra, policy) ==
    {Entry("child", i, child[i]) :
        i \in {j \in DOMAIN child : policy = "warn" => ~Offers(hydra, child[j])}}

MergeTools(child, hydra, policy) ==
    KeptOfHydra(child, hydra, policy) \cup KeptOfChild(child, hydra, policy)

NamesDiffer(list) == \A i, j \in DOMAIN list : list[i] = list[j] => i = j
==============================================================================
