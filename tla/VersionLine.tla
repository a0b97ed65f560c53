----------------------------- MODULE VersionLine -----------------------------
(***************************************************************************)
(* Gateway: what readers make of a constitution's public versions.         *)
(*                                                                         *)
(* The catalog lists one row per published legal version, under the id of  *)
(* its newest published correction, with the predecessor it was drafted    *)
(* on.  The pages order these rows into a line, name its end the latest    *)
(* version, and compare two of them only if a path of predecessors leads   *)
(* from one to the other.  All of it is computed from the catalog's state  *)
(* at the time of the request, so this module adds no variable.            *)
(***************************************************************************)
EXTENDS CatalogVersions, SequencesExt

(***************************************************************************)
(* The rows: listPublishedPublicVersions, through publicVersions, which    *)
(* keeps all of them because each stands for a legal version of its own.   *)
(***************************************************************************)
versions(c) ==
    {[id |-> r.current, legalVersionId |-> r.legal,
      predecessorVersionId |-> row[r.legal].pred, label |-> row[r.legal].label] :
        r \in PublicRows(c)}

\* The row an id names: the correction it is listed under, or its legal version.
Named(S, x) == {v \in S : x \in {v.id, v.legalVersionId}}

Follows(S, w, v) == v \in Named(S, w.predecessorVersionId)

\* Effective date, then label: no two versions of a constitution have the same.
ByDate(S) ==
    CHOOSE line \in [1..Cardinality(S) -> S] :
        \A i, j \in 1..Cardinality(S) : i < j => line[i].label < line[j].label

\* orderVersions: the chain from the one row without a predecessor, if it reaches
\* every row, and the order of dates otherwise.
Line(S) ==
    LET roots == {v \in S : v.predecessorVersionId = None}
        Walk[n \in 1..Cardinality(S)] ==
            IF n = 1 THEN <<CHOOSE v \in roots : TRUE>>
            ELSE LET line == Walk[n - 1]
                     next == {w \in S : Follows(S, w, Last(line))}
                 IN  IF Cardinality(next) = 1 /\ next \cap ToSet(line) = {}
                     THEN Append(line, CHOOSE w \in next : TRUE) ELSE line
    IN  IF Cardinality(roots) = 1 THEN Walk[Cardinality(S)] ELSE <<>>

orderVersions_ByDate(S) == ByDate(S)   \* mutant: the predecessors are not looked at
orderVersions_NewestFirst(S) == Reverse(ByDate(S))   \* mutant: the order of a selector

orderVersions(S) == IF Len(Line(S)) = Cardinality(S) THEN Line(S) ELSE ByDate(S)

\* versionPath: the predecessors of `to', as far back as they are listed.
Trail(S, to) ==
    LET Walk[n \in 1..Cardinality(S)] ==
            IF n = 1 THEN <<to>>
            ELSE LET path == Walk[n - 1]
                     before == Named(S, Head(path).predecessorVersionId) \ ToSet(path)
                 IN  IF before = {} THEN path ELSE <<CHOOSE v \in before : TRUE>> \o path
    IN  Walk[Cardinality(S)]

\* The part of the trail that starts at `from'; none if it does not lead there.
versionPath(S, from, to) ==
    LET trail == Trail(S, to)
    IN  IF from = to \/ from \notin ToSet(trail) THEN None
        ELSE SubSeq(trail, CHOOSE i \in DOMAIN trail : trail[i] = from, Len(trail))

\* latestVersion: the row the catalog flags (latestPublished), or else the last.
latestVersion(c) ==
    LET flagged == {v \in versions(c) : v.id = Latest(c)}
    IN  IF flagged # {} THEN CHOOSE v \in flagged : TRUE ELSE Last(orderVersions(versions(c)))

(***************************************************************************)
(* The compare page.                                                       *)
(***************************************************************************)
\* publicVersionForSnapshot, of the legal version getVersion answers for the id.
publicVersionForSnapshot(c, x) == Named(versions(c), row[x].legal)

\* What is shown for ?from=&to=: two snapshots and the path between them, or an error.
ComparePage(c, from, to) ==
    LET selected == {pair \in publicVersionForSnapshot(c, from)
                                    \X publicVersionForSnapshot(c, to) :
                        versionPath(versions(c), pair[1], pair[2]) # None}
    IN  IF {from, to} \subseteq {v \in Published : row[v].constitution = c} /\ selected # {}
        THEN [from |-> from, to |-> to,
              path |-> LET pair == CHOOSE p \in selected : TRUE
                       IN  versionPath(versions(c), pair[1], pair[2])]
        ELSE None

(***************************************************************************)
(* Properties.                                                             *)
(***************************************************************************)
\* Every row was drafted on a listed version, and on a snapshot that is the version itself
\* or still its newest correction.
Resolved(c) ==
    \A v \in versions(c) :
        LET pred == v.predecessorVersionId
        IN  pred # None =>
              \E r \in PublicRows(c) : r.legal = row[pred].legal /\ pred \in {r.legal, r.current}

\* Later laws and corrections are dated later.
Chronological == \A v \in Published : row[v].pred # None => row[row[v].pred].label < row[v].label

\* Where every predecessor is listed like this, the pages follow the law: the line runs from the
\* initial version to the latest one, each version amends the one before it, and any two
\* of them compare along the part of the line between them, in this direction only.
ReadersFollowTheLaw ==
    \A c \in Constitution :
        versions(c) # {} /\ Resolved(c) =>
            LET line == orderVersions(versions(c))
            IN  /\ Last(line).id = Latest(c)
                /\ \A i, j \in DOMAIN line :
                     /\ j = i + 1 =>
                          row[row[line[j].legalVersionId].pred].legal = line[i].legalVersionId
                     /\ versionPath(versions(c), line[i], line[j]) =
                          IF i < j THEN SubSeq(line, i, j) ELSE None

\* Whether or not predecessors are listed: the line of a history that is published and
\* dated in order ends in the version the catalog flags as the latest.
LineEndsInLatest ==
    PublishedInOrder /\ Chronological =>
        \A c \in Constitution :
            versions(c) # {} => Last(orderVersions(versions(c))) = latestVersion(c)
                                /\ latestVersion(c).id = Latest(c)

\* Any two versions of a history that is published and dated in order can be compared.
VersionsAreComparable ==
    PublishedInOrder /\ Chronological =>
        \A c \in Constitution :
            LET line == orderVersions(versions(c))
            IN  \A i, j \in DOMAIN line :
                  i < j => ComparePage(c, line[i].id, line[j].id) # None
=============================================================================
