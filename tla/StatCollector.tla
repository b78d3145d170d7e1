--------------------------- MODULE StatCollector ---------------------------
(***************************************************************************)
(* stat_collector and proc_collector (statistics/statcollector): a table of*)
(* counters sampled from /proc.  Two buffers hold the two latest samples,  *)
(* a map holds the latest value of every attribute ever read, and queries  *)
(* for the data base are made of the map.                                  *)
(*                                                                         *)
(* One collector stands for the table; proc_collector concatenates what    *)
(* its tables report.  Attributes are numbers in the order of their names, *)
(* the order of a std::map.  Left out: the formats of the files in /proc,  *)
(* the types of cells (text everywhere a property looks), the active flags *)
(* and printing.                                                           *)
(***************************************************************************)
EXTENDS Integers, FiniteSets, Sequences, SequencesExt

CONSTANTS
  Attributes,         \* the names a file in /proc may hold
  Collectors,         \* [kind, fields, op]: the class, the attributes with a field,
                      \* and the operation of the fields
  MaxValue,           \* bound on counters
  MaxTicks,           \* bound on the clock, and so on the samples
  MaxQueries          \* bound on queries and reports

ASSUME StatAssumption ==
  /\ Attributes \subseteq Nat /\ IsFiniteSet(Attributes) /\ {MaxValue, MaxTicks, MaxQueries} \subseteq Nat
  /\ Collectors \subseteq
       [kind : {"snmp4", "snmp6", "netdev", "sockstat64", "route", "ndis_cache",
                "arp_cache", "net_stats", "wireless", "arp"},
        fields : Seq(Attributes), op : {"FirstDeriv", "Less", "Changed"}]

VARIABLES
  collector,          \* the table
  table,              \* instances, clock, and the last three samples taken
  stats,              \* _stats
  queries,            \* _parsed, and the columns of _queries
  row,                \* the latest insert query, and the number of queries
  classified          \* the static string of proc_collector::get_normalized

statVars == <<collector, table, stats, queries, row, classified>>

Counters == 0 .. MaxValue

\* What a file holds, and the files with the same attributes.
Files == UNION {[names -> Counters] : names \in SUBSET Attributes}
Alike(file) == [DOMAIN file -> Counters]
----------------------------------------------------------------------------
\* The fields of a new object are not initialised.  The constructors of the tables
\* that push zeros put zeros into the map as well.
StatInit ==
  /\ collector \in Collectors
  /\ \E garbage \in [DOMAIN collector.fields -> Counters] :
       table = [instances |-> <<[i \in DOMAIN garbage |->
                                   [value |-> garbage[i], stamp |-> 0]]>>,
                clock |-> 1, taken |-> <<>>]
  /\ stats = [a \in IF collector.kind \in {"wireless", "arp"} THEN Range(collector.fields) ELSE {} |-> 0]
  /\ queries = [parsed |-> FALSE, columns |-> <<>>]
  /\ row = [columns |-> <<>>, values |-> <<>>, count |-> 0]
  /\ classified = <<>>

\* Mutant: the buffers are not exchanged before the older one is overwritten.
NotExchanged(t) ==
  IF Len(t.instances) = 2
  THEN t.instances
  ELSE <<t.instances[1], [i \in DOMAIN t.instances[1] |->
                            [t.instances[1][i] EXCEPT !.stamp = t.clock]]>>

\* getNewDataPtr: from the second sample on the buffers change places; the first
\* call makes the second buffer, a clone.
Exchanged(t) ==
  IF Len(t.instances) = 2
  THEN <<t.instances[2], t.instances[1]>>
  ELSE <<t.instances[1], [i \in DOMAIN t.instances[1] |->
                            [t.instances[1][i] EXCEPT !.stamp = t.clock]]>>

\* A sample goes to the second buffer, the first sample to the first.  A tick of
\* the clock is what FirstDeriv can tell apart: fields are stamped in the tick of
\* the clone or in the next one, and no two samples in the same.
Sample(values, gap) == [values |-> values, gap |-> gap]
Put(t, sample) ==
  [instances |-> [Exchanged(t) EXCEPT ![Len(t.instances)] =
                    [i \in DOMAIN sample.values |->
                       [value |-> sample.values[i], stamp |-> t.clock + sample.gap]]],
   clock |-> t.clock + sample.gap + 1,
   taken |-> Append(IF Len(t.taken) = 3 THEN Tail(t.taken) ELSE t.taken, sample.values)]

\* putValuesFromStrings splits a list that is too long into samples, and drops
\* what is too short for one.
Chunks(strings, size) ==
  [k \in 1 .. Len(strings.values) \div size |->
     Sample(SubSeq(strings.values, (k - 1) * size + 1, k * size), strings.gap)]
PutStrings(t, strings) ==
  IF Len(t.instances[1]) = 0 THEN Put(t, strings)
  ELSE FoldLeft(Put, t, Chunks(strings, Len(t.instances[1])))
----------------------------------------------------------------------------
\* The map with the missing fields, and what it holds for the fields.
WithFields(map) ==
  [a \in DOMAIN map \cup Range(collector.fields) |-> IF a \in DOMAIN map THEN map[a] ELSE 0]
Cells(map) == [i \in DOMAIN collector.fields |-> WithFields(map)[collector.fields[i]]]

Overwritten(map, file) ==
  [a \in DOMAIN map \cup DOMAIN file |-> IF a \in DOMAIN file THEN file[a] ELSE map[a]]

\* The table after a sample of each of the maps.
Sampled(maps, gap) ==
  FoldLeft(PutStrings, table, [n \in DOMAIN maps |-> Sample(Cells(maps[n]), gap)])

Collects(kind) ==
  /\ collector.kind = kind /\ table.clock < MaxTicks
  /\ UNCHANGED <<collector, queries, row, classified>>

\* /proc/net/snmp: after each of its lines what has been read so far goes into the
\* map and is sampled, and once more at the end of the file.
snmp4_collector ==
  /\ Collects("snmp4")
  /\ \E file \in Files, gap \in {0, 1} : \E names \in SUBSET DOMAIN file :
       LET part == Overwritten(stats, Restrict(file, names))
           all == Overwritten(stats, file)
       IN stats' = WithFields(all) /\ table' = Sampled(<<part, all, all>>, gap)

\* /proc/net/snmp6: the map is brought up to date, and the fields sampled.
snmp6_collector ==
  /\ Collects("snmp6")
  /\ \E file \in Files, gap \in {0, 1} :
       stats' = WithFields(Overwritten(stats, file)) /\ table' = Sampled(<<stats'>>, gap)

\* /proc/net/dev: the names are those of the header, and without a line for the
\* interface all their values are zero.
netdev_stats ==
  /\ Collects("netdev")
  /\ \E file \in Files, gap \in {0, 1} : \E found \in {file, [a \in DOMAIN file |-> 0]} :
       stats' = WithFields(Overwritten(stats, found)) /\ table' = Sampled(<<stats'>>, gap)

\* /proc/net/sockstat6: strip_key_value inserts into the map, which keeps the value of
\* an attribute it holds.
sockstat64_collector ==
  /\ Collects("sockstat64")
  /\ \E file \in Files, gap \in {0, 1} :
       stats' = WithFields(Overwritten(file, stats)) /\ table' = Sampled(<<stats'>>, gap)

\* /proc/net/stat/rt_cache: a sample for every line, and one for the empty line at the
\* end.
route_statistics ==
  /\ Collects("route")
  /\ \E first \in Files, gap \in {0, 1} :
     \E lines \in {<<first>>} \cup {<<first, f>> : f \in Alike(first)} :
       LET maps == [n \in DOMAIN lines |-> Overwritten(stats, lines[n])]
       IN /\ stats' = WithFields(Last(maps))
          /\ table' = Sampled(Append(maps, Last(maps)), gap)

\* The sample of the caches is the sum of the lines of their files.
Plus(sum, n) == sum + n
Sums(lines) ==
  [i \in DOMAIN collector.fields |->
     FoldLeft(Plus, 0, [n \in DOMAIN lines |-> lines[n][collector.fields[i]]])]
Caches ==
  LET Lines == [Range(collector.fields) -> Counters]
  IN {<<f>> : f \in Lines} \cup (Lines \X Lines)

\* /proc/net/stat/ndisc_cache: the map holds the last line.
ndis_cache ==
  /\ Collects("ndis_cache")
  /\ \E lines \in Caches, gap \in {0, 1} :
       stats' = Overwritten(stats, Last(lines)) /\ table' = PutStrings(table, Sample(Sums(lines), gap))

\* /proc/net/stat/arp_cache: the number goes into a cell that is read as the text "0".
arp_cache_stats ==
  /\ Collects("arp_cache")
  /\ \E lines \in Caches, gap \in {0, 1} :
       stats' = WithFields(stats) /\ table' = PutStrings(table, Sample(Sums(lines), gap))

\* /proc/net/netstat: the sample is put together apart from the map.
net_stats ==
  /\ Collects("net_stats")
  /\ \E file \in Files, values \in [DOMAIN collector.fields -> Counters], gap \in {0, 1} :
       stats' = Overwritten(stats, file) /\ table' = PutStrings(table, Sample(values, gap))

\* Zeros are pushed; the zeros for the map go to copies of its entries.
pushDefaultValues ==
  /\ \E gap \in {0, 1} :
       table' = PutStrings(table, Sample([i \in DOMAIN collector.fields |-> 0], gap))
  /\ UNCHANGED stats

wireless == Collects("wireless") /\ pushDefaultValues

\* /proc/net/route and /proc/net/arp: without a gateway or without entries zeros are
\* pushed.
arp_stats ==
  /\ Collects("arp")
  /\ \/ pushDefaultValues
     \/ \E file \in [Range(collector.fields) -> Counters], gap \in {0, 1} :
          stats' = Overwritten(stats, file) /\ table' = Sampled(<<stats'>>, gap)

\* A caller of its own, with any number of values (one value for the first sample
\* they make, another one behind it).
putValuesFromStrings ==
  /\ collector.fields # <<>> /\ table.clock < MaxTicks
  /\ \E gap \in {0, 1}, n \in 1 .. 2 * Len(collector.fields) + 1, v, w \in {0, MaxValue} :
       table' = PutStrings(table, Sample([i \in 1 .. n |->
                                            IF i <= Len(collector.fields) THEN v ELSE w], gap))
  /\ UNCHANGED <<collector, stats, queries, row, classified>>
----------------------------------------------------------------------------
\* The attributes of the map, in its order.
InOrder(names) ==
  CHOOSE s \in [1 .. Cardinality(names) -> names] :
    \A i, j \in 1 .. Cardinality(names) : i < j => s[i] < s[j]
Names == InOrder(DOMAIN stats)

\* parse_map_to_datatable, called for an insert query: the columns are those of the
\* first call, the values those of the map.
insert_query ==
  /\ row.count < MaxQueries
  /\ queries' = [parsed |-> TRUE, columns |-> IF queries.parsed THEN queries.columns ELSE Names]
  /\ row' = [columns |-> queries'.columns, count |-> row.count + 1,
             values |-> [i \in DOMAIN Names |-> stats[Names[i]]]]
  /\ UNCHANGED <<collector, table, stats, classified>>

create_table_query ==
  /\ queries' = [parsed |-> TRUE, columns |-> IF queries.parsed THEN queries.columns ELSE Names]
  /\ UNCHANGED <<collector, table, stats, row, classified>>

\* The operations on two fields.  The division of FirstDeriv by the time between
\* them is left out.
Less(l, r) == l.value - r.value
FirstDeriv(l, r) == IF l.stamp - r.stamp < 1 THEN 0 ELSE l.value - r.value
Changed(l, r) == IF l.value = r.value THEN 0 ELSE 1
Operation(l, r) ==
  CASE collector.op = "Less" -> Less(l, r)
    [] collector.op = "FirstDeriv" -> FirstDeriv(l, r)
    [] collector.op = "Changed" -> Changed(l, r)

\* get_normalized of the table: left the first buffer, right the second.
get_normalized ==
  IF Len(table.instances) = 1 THEN <<>>
  ELSE [i \in DOMAIN collector.fields |->
          Operation(table.instances[1][i], table.instances[2][i])]

\* proc_collector::get_normalized appends to a static string; classify_stats hands
\* all of it to the classifier.
Classify ==
  /\ Len(classified) < MaxQueries * Len(collector.fields)
  /\ classified' = classified \o get_normalized
  /\ UNCHANGED <<collector, table, stats, queries, row>>

StatNext ==
  \/ snmp4_collector \/ snmp6_collector \/ netdev_stats \/ sockstat64_collector
  \/ route_statistics \/ ndis_cache \/ arp_cache_stats \/ net_stats \/ wireless \/ arp_stats
  \/ putValuesFromStrings
  \/ insert_query \/ create_table_query \/ Classify

StatSpec == StatInit /\ [][StatNext]_statVars
----------------------------------------------------------------------------
\* From the third sample on (the second one overwrites the first), the first buffer
\* holds the previous sample and get_normalized takes it for the newer one: what it
\* reports of a counter is the last change with its sign inverted (Less) or no change
\* at all (FirstDeriv, which finds that no time has passed), however fast the counter
\* grows.  Changed does not mind.
ChangeReported ==
  Len(table.taken) = 3 =>
    get_normalized = [i \in DOMAIN collector.fields |->
                        LET before == table.taken[2][i]
                            after == table.taken[3][i]
                        IN CASE collector.op = "Less" -> before - after
                             [] collector.op = "FirstDeriv" -> 0
                             [] collector.op = "Changed" -> IF before = after THEN 0 ELSE 1]

\* An insert query pairs every column with the current value of its attribute as long
\* as the map has only the attributes of the first query, which may be the query that
\* creates the table.
RowsOfColumns ==
  [][row' # row /\ Range(row'.columns) = DOMAIN stats =>
       row'.values = [i \in DOMAIN row'.columns |-> stats[row'.columns[i]]]]_statVars

\* "when new values appear, alter table to reflect new attributes": a row has a column
\* for every attribute of the map.  Nothing alters the table, whose columns are those
\* of the first query: a row has more values than columns as soon as the map grows.
ColumnsForAttributes ==
  [][row' # row => Range(row'.columns) = DOMAIN stats]_statVars

\* "trying to classify last sample": what is classified is the report of the latest
\* samples.  As the string is static and only appended to, the reports of all earlier
\* samples are classified again in front of it.
ClassifiesLastSample ==
  [][classified' # classified => classified' = get_normalized]_statVars
============================================================================
