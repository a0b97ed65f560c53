-------------------------- MODULE MCCatalogVersions --------------------------
(* Small instances of CatalogVersions: ids are interchangeable, labels are *)
(* ranked.                                                                 *)
EXTENDS VersionLine, TLC

CONSTANTS v1, v2, v3, v4

VARIABLE instance  \* the part of the instance a behavior stays in

IdSymmetry == Permutations(Constitution) \cup Permutations({v1, v2})
                \cup Permutations(Attempt) \cup Permutations(Settings)

\* The steps over these constitutions, versions and request fields.  What
\* CreateDraftVersion refuses whatever the rest of the request is is not enumerated.
Steps(cs, vs, as, ls, es, ss, hops) ==
    \/ \E c \in cs, id \in vs \ Present, a \in Opt({a \in as : reservation[a] = None}) :
         \E req \in [label: {l \in ls : ~LabelTaken(c, l)}, pred: Opt(VersionsOf(c)), hop: hops,
                     evidence: Opt(es), settings: Opt(ss), job: Opt(as)] :
           CreateDraftVersion(c, id, req, a)
    \/ \E v \in Present, actor \in Actor, job \in Opt(as) : PublishVersion(v, actor, job)
    \/ \E c \in cs, expected, s \in ss : SaveSettings(c, expected, s)

\* The constitution that has versions, any of them while none has.
Begun == LET cs == {row[v].constitution : v \in Present}
         IN  IF cs = {} THEN Constitution ELSE cs

MCInit == Init /\ instance \in {"axes", "history"}

\* axes: four versions of one constitution, drafted and published in every order.
\* history: two versions of one or two constitutions, appended by racing attempts,
\* with inherited evidence and settings that change between drafts.
MCNext ==
    /\ UNCHANGED instance
    /\ \/ /\ instance = "axes"
          /\ Steps(Begun, Version, {}, Label, {}, {}, {"legal", "editorial_correction"})
       \/ /\ instance = "history"
          /\ Steps(Constitution, {v1, v2}, Attempt, {1, 2}, Evidence, Settings,
                   {"official_errata", "editorial_correction"})

MCSpec == MCInit /\ [][MCNext]_<<vars, instance>>
=============================================================================
