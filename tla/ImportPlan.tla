------------------------------ MODULE ImportPlan ------------------------------
(***************************************************************************)
(* How the sources of an imported backup are matched to installed ones     *)
(* before anything is written (internal/tachibackup match.go, report.go).  *)
(* Names are compared as normalised, hosts as registered: both are values. *)
(***************************************************************************)
EXTENDS Naturals, FiniteSetsExt, SequencesExt

CONSTANTS Aliases,   \* sourceAliases: the other names of a name, a function
          None       \* no name, no host, no source

\* An installed source; a source of the backup; a title of the backup.
Installed(id, name, host) == [id |-> id, name |-> name, host |-> host]
Nobody == Installed(None, None, None)

FirstFitting(seq, fitting) ==
    LET found == {i \in DOMAIN seq : seq[i] \in fitting} IN
    IF found = {} THEN Nobody ELSE seq[Min(found)]

\* matchSource: by name, by alias, then by a host of the titles; the first installed
\* source that fits.
MatchSource(name, hosts, installed) ==
    LET byName == FirstFitting(installed, {c \in Range(installed) : name # None /\ name \in {c.name, c.id}})
        byAlias == FirstFitting(installed, {c \in Range(installed) : name \in DOMAIN Aliases /\ {c.name, c.id} \cap Aliases[name] # {}})
        byHost == FirstFitting(installed, {c \in Range(installed) : c.host # None /\ c.host \in hosts})
    IN  CASE byName # Nobody -> [ref |-> byName, match |-> "name"]
          [] byName = Nobody /\ byAlias # Nobody -> [ref |-> byAlias, match |-> "alias"]
          [] {byName, byAlias} = {Nobody} /\ byHost # Nobody -> [ref |-> byHost, match |-> "host"]
          [] OTHER -> [ref |-> Nobody, match |-> "unmatched"]

\* Mutant of Resolve: a source the user maps to nothing is matched after all.
ResolveAnyway(source, name, hosts, installed, sourceMap) ==
    LET chosen == FirstFitting(installed, {c \in Range(installed) : source \in DOMAIN sourceMap /\ c.id = sourceMap[source]}) IN
    IF chosen # Nobody THEN [ref |-> chosen, match |-> "manual"]
    ELSE MatchSource(name, hosts, installed)

\* What the user maps is not matched; mapped to nothing known, a source is deferred.
Resolve(source, name, hosts, installed, sourceMap) ==
    LET chosen == FirstFitting(installed, {c \in Range(installed) : source \in DOMAIN sourceMap /\ c.id = sourceMap[source]}) IN
    IF source \notin DOMAIN sourceMap THEN MatchSource(name, hosts, installed)
    ELSE IF chosen # Nobody THEN [ref |-> chosen, match |-> "manual"]
    ELSE [ref |-> Nobody, match |-> "deferred"]

\* The sources of a backup, each once: the declared ones, then those only titles name.
Order(backup) ==
    FoldLeft(LAMBDA seen, source : IF source \in Range(seen) THEN seen ELSE Append(seen, source), <<>>,
             [i \in DOMAIN backup.sources |-> backup.sources[i].source]
                \o [i \in DOMAIN backup.manga |-> backup.manga[i].source])

\* The name a source is first declared with; one that is not declared has none.
NameOf(source, backup) ==
    LET declared == {i \in DOMAIN backup.sources : backup.sources[i].source = source} IN
    IF declared = {} THEN None ELSE backup.sources[Min(declared)].name

TitlesOf(source, backup) == {i \in DOMAIN backup.manga : backup.manga[i].source = source}

\* Build: a row for each source, and what is counted for the report.
Build(backup, installed, sourceMap, skipUnmatched) ==
    LET Row(source) ==
            LET titles == TitlesOf(source, backup)
                hosts == {backup.manga[i].host : i \in titles} \ {None}
                found == Resolve(source, NameOf(source, backup), hosts, installed, sourceMap)
            IN  [source |-> source, ref |-> found.ref.id, match |-> found.match, manga |-> Cardinality(titles),
                 deferred |-> found.ref = Nobody, skip |-> skipUnmatched /\ found.ref = Nobody]
        rows == [i \in DOMAIN Order(backup) |-> Row(Order(backup)[i])]
    IN  [rows |-> rows,
         unmatchedTitles |-> FoldSeq(LAMBDA row, sum : IF row.deferred THEN sum + row.manga ELSE sum, 0, rows),
         outOfLibrary |-> Cardinality({i \in DOMAIN backup.manga : ~backup.manga[i].favorite})]

=============================================================================
