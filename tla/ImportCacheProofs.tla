-------------------------- MODULE ImportCacheProofs --------------------------
(***************************************************************************)
(* Proofs about the import cache: what a hit returns, and what a miss      *)
(* means, whoever writes the file and whenever a header is edited.         *)
(***************************************************************************)
EXTENDS ImportCache, TLAPS

Keys == [flags : Flags \union {None}, digest : Seq(Text)]
Entries == {e \in [root : Roots \union {Synth}, flags : Flags, templates : Templates \union {None},
                   text : UNION {[F -> Text] : F \in SUBSET File}] :
              e.root # Synth => e.root \in DOMAIN e.text}

RootsOf(graph) ==
  graph.roots \o (IF graph.templates = None THEN << >> ELSE <<Synth>>)

(* The classes of the first n roots of a graph, in order.                    *)
Covers(graph, n, ids, ctx) ==
  /\ ids = [i \in 1 .. n |-> i] /\ n <= Len(ctx)
  /\ \A i \in 1 .. n : ctx[i].root = RootsOf(graph)[i]

(* A record, whole: of a quiet run, its classes have the text of its key.    *)
RecordOK(r) ==
  /\ r.conf \in HeaderGraphs /\ r.key \in Keys /\ r.ctx \in Seq(Entries) /\ r.anns \in Seq(Entries)
  /\ Covers(r.conf, Len(RootsOf(r.conf)), r.ids, r.ctx)
  /\ r.key.flags = r.conf.flags /\ Len(r.key.digest) = Len(Sorted)
  /\ \A i \in DOMAIN r.ctx : r.ctx[i].flags = r.conf.flags
  /\ r.quiet => \A i \in DOMAIN r.ctx, k \in DOMAIN Sorted :
       Sorted[k] \in DOMAIN r.ctx[i].text => r.ctx[i].text[Sorted[k]] = r.key.digest[k]

Phases == {"idle", "hash", "read", "parse", "annotate", "write", "hit", "done"}

Outs == [ids : Seq(Nat), ctx : Seq(Entries), anns : Seq(Entries)]

Shape ==
  /\ text \in [File -> Text]
  /\ file = <<file[1], file[2]>>
  /\ pc \in [Proc -> Phases]
  /\ conf \in [Proc -> HeaderGraphs \union {NoConf}]
  /\ key \in [Proc -> Keys]
  /\ at \in [Proc -> Nat \ {0}]
  /\ buf = [p \in Proc |-> buf[p]]
  /\ out \in [Proc -> Outs]
  /\ quiet \in [Proc -> BOOLEAN]

(* What a run has made.                                                      *)
KeyOK(p) ==
  /\ conf[p] \in HeaderGraphs
  /\ pc[p] = "hash" => Len(key[p].digest) = at[p] - 1 /\ at[p] <= Len(Sorted) + 1
  /\ pc[p] # "hash" => key[p].flags = conf[p].flags /\ Len(key[p].digest) = Len(Sorted)
  /\ quiet[p] => \A k \in DOMAIN key[p].digest : key[p].digest[k] = text[Sorted[k]]

OutOK(p) ==
  /\ pc[p] \in {"hash", "read"} => out[p].ids = << >> /\ out[p].ctx = << >>
  /\ pc[p] = "parse" => /\ at[p] <= Len(ParseRoots(p)) + 1 /\ Len(out[p].ctx) = at[p] - 1
                        /\ Covers(conf[p], at[p] - 1, out[p].ids, out[p].ctx)
  /\ pc[p] \in {"annotate", "write", "done"} =>
       Covers(conf[p], Len(ParseRoots(p)), out[p].ids, out[p].ctx)
  /\ pc[p] # "hit" => \A i \in DOMAIN out[p].ctx :
       /\ out[p].ctx[i].flags = conf[p].flags
       /\ quiet[p] => \A f \in Roots \intersect DOMAIN out[p].ctx[i].text :
                        out[p].ctx[i].text[f] = text[f]

(* A hit has the beginning of one record and the rest of one, that fit.      *)
HitOK(p) ==
  /\ RecordOK(buf[p]) /\ buf[p].key = key[p] /\ out[p].ids = buf[p].ids
  /\ \E graph \in HeaderGraphs : Covers(graph, Len(RootsOf(graph)), out[p].ids, out[p].ctx)

FileOK == \A i \in {1, 2} : file[i] # None => RecordOK(file[i])
RunOK(p) ==
  /\ pc[p] # "idle" => KeyOK(p) /\ OutOK(p)
  /\ pc[p] = "hit" => HitOK(p)
  /\ pc[p] \in {"hash", "read"} /\ buf[p] # None => RecordOK(buf[p])

IInv == Shape /\ FileOK /\ \A p \in Proc : RunOK(p)

-----------------------------------------------------------------------------
(* The constants.                                                            *)
LEMMA SortedList ==
  /\ Sorted \in RootLists /\ Sorted \in Seq(Roots) /\ Len(Sorted) \in Nat
  /\ \A k \in DOMAIN Sorted : Sorted[k] \in Roots
  /\ \A f \in Roots : \E k \in DOMAIN Sorted : Sorted[k] = f
<1>1. RootLists # {}
  BY GraphsAssumption DEF RootLists
<1>2. Sorted \in RootLists
  BY <1>1 DEF Sorted
<1>3. Sorted \in Seq(Roots) /\ Roots = {Sorted[k] : k \in DOMAIN Sorted}
  BY <1>2, RootsAssumption DEF ToSet
<1> QED BY <1>2, <1>3

LEMMA GraphParts ==
  ASSUME NEW graph \in HeaderGraphs
  PROVE  /\ graph.roots \in Seq(Roots) /\ graph.flags \in Flags /\ graph.templates \in Templates
         /\ RootsOf(graph) \in Seq(Roots \union {Synth}) /\ Len(RootsOf(graph)) \in Nat
         /\ graph.roots \in RootLists
         /\ \A f \in Roots : \E i \in 1 .. Len(RootsOf(graph)) : RootsOf(graph)[i] = f
<1>1. graph.roots \in RootLists /\ graph.flags \in Flags /\ graph.templates \in Templates
  BY GraphsAssumption
<1>2. graph.roots \in Seq(Roots) /\ {graph.roots[k] : k \in DOMAIN graph.roots} = Roots
  BY <1>1, RootsAssumption DEF ToSet
<1> DEFINE tail == IF graph.templates = None THEN << >> ELSE <<Synth>>
<1>3. tail \in Seq(Roots \union {Synth}) /\ graph.roots \in Seq(Roots \union {Synth})
  <2>1. << >> \in Seq(Roots \union {Synth}) /\ <<Synth>> \in Seq(Roots \union {Synth})
    OBVIOUS
  <2>2. graph.roots \in Seq(Roots \union {Synth})
    BY ONLY <1>2
  <2> QED BY <2>1, <2>2
<1>4. RootsOf(graph) = graph.roots \o tail
  BY DEF RootsOf
<1> HIDE DEF tail
<1>5. RootsOf(graph) \in Seq(Roots \union {Synth}) /\ Len(RootsOf(graph)) \in Nat
  BY <1>3, <1>4
<1>6. ASSUME NEW f \in Roots PROVE \E i \in 1 .. Len(RootsOf(graph)) : RootsOf(graph)[i] = f
  <2>1. PICK k \in DOMAIN graph.roots : graph.roots[k] = f
    BY <1>2
  <2>2. k \in 1 .. Len(RootsOf(graph)) /\ RootsOf(graph)[k] = f
    BY <1>3, <1>4, <2>1
  <2> QED BY <2>2
<1> QED BY <1>1, <1>2, <1>5, <1>6

(* What a parse yields.                                                      *)
LEMMA ParseEntry ==
  ASSUME Shape, NEW p \in Proc, conf[p] \in HeaderGraphs, NEW root \in Roots \union {Synth}
  PROVE  /\ Parse(p, root) \in Entries
         /\ Parse(p, root).root = root /\ Parse(p, root).flags = conf[p].flags
         /\ \A f \in DOMAIN Parse(p, root).text : Parse(p, root).text[f] = text[f]
<1> DEFINE reads == (IF root = Synth THEN Roots ELSE {root}) \union Included
           seen == [f \in reads |-> text[f]]
           entry == [root |-> root, flags |-> conf[p].flags,
                     templates |-> IF root = Synth THEN conf[p].templates ELSE None, text |-> seen]
<1>1. Parse(p, root) = entry
  BY DEF Parse
<1>2. reads \in SUBSET File /\ root # Synth => root \in reads
  BY DEF File
<1>3. text \in [File -> Text] /\ reads \in SUBSET File
  BY DEF Shape, File
<1> HIDE DEF reads
<1>4. seen \in [reads -> Text] /\ DOMAIN seen = reads /\ \A f \in reads : seen[f] = text[f]
  BY <1>3
<1>5. seen \in UNION {[F -> Text] : F \in SUBSET File}
  BY <1>3, <1>4
<1> HIDE DEF seen
<1>6. conf[p].flags \in Flags /\ conf[p].templates \in Templates
  BY GraphParts
<1>7. entry \in [root : Roots \union {Synth}, flags : Flags, templates : Templates \union {None},
                 text : UNION {[F -> Text] : F \in SUBSET File}]
  BY <1>5, <1>6
<1>8. root # Synth => root \in reads
  BY DEF reads
<1>9. entry \in Entries
  BY <1>4, <1>7, <1>8 DEF Entries
<1> QED BY <1>1, <1>4, <1>9

(* A longer ctx covers what it covered.                                      *)
LEMMA CoversMore ==
  ASSUME NEW graph, NEW n \in Nat, NEW ids, NEW ctx \in Seq(Entries), NEW e \in Entries,
         Covers(graph, n, ids, ctx)
  PROVE  Covers(graph, n, ids, Append(ctx, e))
<1>1. /\ n <= Len(ctx) /\ Len(ctx) \in Nat /\ Len(Append(ctx, e)) = Len(ctx) + 1
      /\ \A i \in 1 .. Len(ctx) : Append(ctx, e)[i] = ctx[i]
  BY DEF Covers
<1>2. \A i \in 1 .. n : i \in 1 .. Len(ctx)
  BY <1>1
<1> QED BY <1>1, <1>2 DEF Covers

LEMMA CoversNext ==
  ASSUME NEW graph \in HeaderGraphs, NEW n \in Nat, NEW ids, NEW ctx \in Seq(Entries), NEW e \in Entries,
         Covers(graph, n, ids, ctx), Len(ctx) = n, e.root = RootsOf(graph)[n + 1]
  PROVE  Covers(graph, n + 1, Append(ids, n + 1), Append(ctx, e))
<1>1. Len(Append(ctx, e)) = n + 1 /\ Append(ctx, e)[n + 1] = e
      /\ \A i \in 1 .. n : Append(ctx, e)[i] = ctx[i]
  OBVIOUS
<1>2. ids = [i \in 1 .. n |-> i]
  BY DEF Covers
<1>3. ids \in Seq(Nat) /\ Len(ids) = n
  BY <1>2
<1>4. Append(ids, n + 1) = [i \in 1 .. n + 1 |-> i]
  BY <1>2, <1>3
<1>5. \A i \in 1 .. n + 1 : i \in 1 .. n \/ i = n + 1
  OBVIOUS
<1>6. \A i \in 1 .. n + 1 : Append(ctx, e)[i].root = RootsOf(graph)[i]
  BY <1>1, <1>5 DEF Covers
<1> QED BY <1>1, <1>4, <1>6 DEF Covers

LEMMA CoversIds ==
  ASSUME NEW graph, NEW n \in Nat, NEW ids, NEW ctx, Covers(graph, n, ids, ctx)
  PROVE  ids = [i \in 1 .. n |-> i] /\ ids \in Seq(Nat) /\ Len(ids) = n /\ DOMAIN ids = 1 .. n
BY DEF Covers

-----------------------------------------------------------------------------
(* A step of one run leaves the others as they are.                          *)
LEMMA RunKept ==
  ASSUME NEW q \in Proc, RunOK(q), text' = text, pc'[q] = pc[q], conf'[q] = conf[q], key'[q] = key[q],
         at'[q] = at[q], buf'[q] = buf[q], out'[q] = out[q], quiet'[q] = quiet[q]
  PROVE  RunOK(q)'
<1>1. KeyOK(q) => KeyOK(q)'
  BY DEF KeyOK
<1>2. ParseRoots(q)' = ParseRoots(q)
  BY DEF ParseRoots
<1>3. OutOK(q) => OutOK(q)'
  BY <1>2 DEF OutOK
<1>4. HitOK(q) => HitOK(q)'
  BY DEF HitOK
<1> QED BY <1>1, <1>3, <1>4 DEF RunOK

LEMMA OthersKept ==
  ASSUME IInv, NEW p \in Proc, text' = text,
         \A q \in Proc : q # p => /\ pc'[q] = pc[q] /\ conf'[q] = conf[q] /\ key'[q] = key[q]
                                  /\ at'[q] = at[q] /\ buf'[q] = buf[q] /\ out'[q] = out[q]
                                  /\ quiet'[q] = quiet[q],
         Shape', FileOK', RunOK(p)'
  PROVE  IInv'
<1>1. ASSUME NEW q \in Proc PROVE RunOK(q)'
  BY <1>1, RunKept DEF IInv
<1> QED BY <1>1 DEF IInv

LEMMA FileKept ==
  ASSUME IInv, file' = file
  PROVE  FileOK'
BY DEF IInv, FileOK

LEMMA EmptyOut ==
  << >> \in Seq(Nat) /\ << >> \in Seq(Entries) /\ << >> \in Seq(Text) /\ Len(<< >>) = 0
OBVIOUS

-----------------------------------------------------------------------------
LEMMA StartKeeps ==
  ASSUME IInv, NEW p \in Proc, Start(p)
  PROVE  IInv'
<1>1. PICK graph \in HeaderGraphs : conf' = [conf EXCEPT ![p] = graph]
  BY DEF Start
<1>2. /\ text' = text /\ file' = file /\ pc' = [pc EXCEPT ![p] = "hash"]
      /\ key' = [key EXCEPT ![p] = NoKey] /\ at' = [at EXCEPT ![p] = 1]
      /\ buf' = [buf EXCEPT ![p] = None] /\ out' = [out EXCEPT ![p] = Nothing]
      /\ quiet' = [quiet EXCEPT ![p] = TRUE]
  BY DEF Start
<1>3. NoKey \in Keys /\ Nothing \in Outs
  BY EmptyOut DEF NoKey, Nothing, Keys, Outs
<1>4. Shape
  BY DEF IInv
<1>5. Shape'
  <2>1. pc' \in [Proc -> Phases] /\ conf' \in [Proc -> HeaderGraphs \union {NoConf}]
    BY <1>1, <1>2, <1>4 DEF Shape, Phases
  <2>2. key' \in [Proc -> Keys] /\ at' \in [Proc -> Nat \ {0}]
    BY <1>2, <1>3, <1>4 DEF Shape
  <2>3. out' \in [Proc -> Outs]
    BY <1>2, <1>3, <1>4 DEF Shape
  <2>4. quiet' \in [Proc -> BOOLEAN] /\ buf' = [q \in Proc |-> buf'[q]]
    BY <1>2, <1>4 DEF Shape
  <2> QED BY <1>2, <1>4, <2>1, <2>2, <2>3, <2>4 DEF Shape
<1>6. /\ pc'[p] = "hash" /\ conf'[p] = graph /\ key'[p] = NoKey /\ at'[p] = 1 /\ out'[p] = Nothing
      /\ buf'[p] = None
  BY <1>1, <1>2, <1>4 DEF Shape
<1>7. RunOK(p)'
  <2>1. Len(NoKey.digest) = 0 /\ DOMAIN NoKey.digest = {} /\ DOMAIN Nothing.ctx = {}
        /\ Nothing.ids = << >> /\ Nothing.ctx = << >>
    BY DEF NoKey, Nothing
  <2>2. KeyOK(p)'
    BY <1>6, <2>1, SortedList DEF KeyOK
  <2>3. OutOK(p)'
    BY <1>6, <2>1 DEF OutOK
  <2> QED BY <1>6, <2>2, <2>3 DEF RunOK
<1>8. FileOK'
  BY <1>2, FileKept
<1> QED BY <1>1, <1>2, <1>4, <1>5, <1>7, <1>8, OthersKept DEF Shape

LEMMA HashKeeps ==
  ASSUME IInv, NEW p \in Proc, HashHeader(p)
  PROVE  IInv'
<1>1. /\ text' = text /\ file' = file /\ pc' = pc /\ conf' = conf /\ buf' = buf /\ out' = out
      /\ quiet' = quiet /\ at' = [at EXCEPT ![p] = at[p] + 1]
      /\ key' = [key EXCEPT ![p].digest = Append(key[p].digest, text[Sorted[at[p]]])]
      /\ pc[p] = "hash" /\ at[p] <= Len(Sorted)
  BY DEF HashHeader
<1>2. Shape /\ KeyOK(p) /\ OutOK(p)
  BY <1>1 DEF IInv, RunOK
<1>3. at[p] \in Nat \ {0} /\ key[p] \in Keys /\ key[p].digest \in Seq(Text)
      /\ Len(key[p].digest) = at[p] - 1
  BY <1>1, <1>2 DEF Shape, Keys, KeyOK
<1>4. at[p] \in DOMAIN Sorted /\ Sorted[at[p]] \in Roots
  BY <1>1, <1>3, SortedList
<1>5. text[Sorted[at[p]]] \in Text
  BY <1>2, <1>4 DEF Shape, File
<1> DEFINE digest == Append(key[p].digest, text[Sorted[at[p]]])
<1>6. /\ digest \in Seq(Text) /\ Len(digest) = at[p] /\ DOMAIN digest = 1 .. at[p]
      /\ digest[at[p]] = text[Sorted[at[p]]]
      /\ \A k \in 1 .. at[p] : k # at[p] => k \in DOMAIN key[p].digest /\ digest[k] = key[p].digest[k]
  BY <1>3, <1>5
<1> HIDE DEF digest
<1>7. [key[p] EXCEPT !.digest = digest] \in Keys
  BY <1>3, <1>6 DEF Keys
<1>8. key' = [key EXCEPT ![p] = [key[p] EXCEPT !.digest = digest]]
  BY <1>1, <1>2 DEF Shape, digest
<1>9. key'[p].digest = digest /\ at'[p] = at[p] + 1
  BY <1>1, <1>2, <1>3, <1>8 DEF Shape, Keys
<1>10. Shape'
  <2>1. key' \in [Proc -> Keys]
    BY <1>2, <1>7, <1>8 DEF Shape
  <2>2. at' \in [Proc -> Nat \ {0}]
    BY <1>1, <1>2, <1>3 DEF Shape
  <2> QED BY <1>1, <1>2, <2>1, <2>2 DEF Shape
<1>11. KeyOK(p)'
  <2>1. ASSUME quiet[p] PROVE \A k \in 1 .. at[p] : digest[k] = text[Sorted[k]]
    BY <1>2, <1>6, <2>1 DEF KeyOK
  <2> QED BY <1>1, <1>2, <1>3, <1>6, <1>9, <2>1 DEF KeyOK
<1>12. OutOK(p)'
  <2>1. ParseRoots(p)' = ParseRoots(p)
    BY <1>1 DEF ParseRoots
  <2> QED BY <1>1, <1>2, <2>1 DEF OutOK
<1>13. RunOK(p)'
  BY <1>1, <1>11, <1>12 DEF IInv, RunOK
<1> QED BY <1>1, <1>2, <1>8, <1>10, <1>13, FileKept, OthersKept DEF Shape

LEMMA ComputeKeeps ==
  ASSUME IInv, NEW p \in Proc, ComputeKey(p)
  PROVE  IInv'
<1>1. /\ text' = text /\ file' = file /\ conf' = conf /\ buf' = buf /\ out' = out /\ quiet' = quiet
      /\ at' = at /\ key' = [key EXCEPT ![p] = Key(p)] /\ pc' = [pc EXCEPT ![p] = "read"]
      /\ pc[p] = "hash" /\ at[p] > Len(Sorted)
  BY DEF ComputeKey
<1>2. Shape /\ KeyOK(p) /\ OutOK(p)
  BY <1>1 DEF IInv, RunOK
<1>3. /\ at[p] \in Nat /\ conf[p] \in HeaderGraphs /\ key[p].digest \in Seq(Text)
      /\ Len(key[p].digest) = at[p] - 1 /\ at[p] <= Len(Sorted) + 1
  BY <1>1, <1>2 DEF Shape, Keys, KeyOK
<1>4. Key(p).digest = key[p].digest /\ Key(p).flags = conf[p].flags /\ Key(p) \in Keys
  BY <1>3, GraphParts DEF Key, Keys
<1>5. Len(Key(p).digest) = Len(Sorted)
  BY <1>1, <1>3, <1>4, SortedList
<1>6. Shape'
  <2>1. key' \in [Proc -> Keys]
    BY <1>1, <1>2, <1>4 DEF Shape
  <2>2. pc' \in [Proc -> Phases]
    BY <1>1, <1>2 DEF Shape, Phases
  <2> QED BY <1>1, <1>2, <2>1, <2>2 DEF Shape
<1>7. key'[p] = Key(p) /\ pc'[p] = "read"
  BY <1>1, <1>2 DEF Shape
<1>8. KeyOK(p)' /\ OutOK(p)'
  <2>1. KeyOK(p)'
    BY <1>1, <1>2, <1>4, <1>5, <1>7 DEF KeyOK
  <2>2. OutOK(p)'
    BY <1>1, <1>2, <1>7 DEF OutOK
  <2> QED BY <2>1, <2>2
<1>9. buf[p] # None => RecordOK(buf[p])
  BY <1>1 DEF IInv, RunOK
<1>10. RunOK(p)'
  BY <1>1, <1>7, <1>8, <1>9 DEF RunOK
<1> QED BY <1>1, <1>2, <1>6, <1>10, FileKept, OthersKept DEF Shape

LEMMA ReadKeeps ==
  ASSUME IInv, NEW p \in Proc, ReadFirst(p)
  PROVE  IInv'
<1>1. /\ text' = text /\ file' = file /\ conf' = conf /\ out' = out /\ quiet' = quiet
      /\ at' = at /\ key' = key /\ pc' = pc /\ buf' = [buf EXCEPT ![p] = file[1]]
      /\ pc[p] = "read" /\ file[1] # None
  BY DEF ReadFirst
<1>2. Shape /\ KeyOK(p) /\ OutOK(p) /\ RecordOK(file[1])
  BY <1>1 DEF IInv, RunOK, FileOK
<1>3. Shape' /\ buf'[p] = file[1]
  BY <1>1, <1>2 DEF Shape
<1>4. KeyOK(p)'
  BY <1>1, <1>2 DEF KeyOK
<1>5. OutOK(p)'
  BY <1>1, <1>2 DEF OutOK
<1>6. RunOK(p)'
  BY <1>1, <1>2, <1>3, <1>4, <1>5 DEF RunOK
<1> QED BY <1>1, <1>2, <1>3, <1>6, FileKept, OthersKept DEF Shape

LEMMA HitKeeps ==
  ASSUME IInv, NEW p \in Proc, Hit(p)
  PROVE  IInv'
<1> DEFINE o == [ids |-> buf[p].ids, ctx |-> file[2].ctx, anns |-> file[2].anns]
<1>1. /\ text' = text /\ file' = file /\ conf' = conf /\ quiet' = quiet
      /\ at' = at /\ key' = key /\ buf' = buf /\ pc' = [pc EXCEPT ![p] = "hit"]
      /\ out' = [out EXCEPT ![p] = o] /\ pc[p] = "read"
      /\ Parses(buf[p], file[2]) /\ buf[p].key = key[p]
  BY DEF Hit
<1>2. /\ Shape /\ KeyOK(p) /\ RecordOK(file[2]) /\ RecordOK(buf[p])
      /\ Len(buf[p].ids) = Len(file[2].ids)
  BY <1>1 DEF IInv, RunOK, FileOK, Parses
<1> DEFINE graph == file[2].conf
           n == Len(RootsOf(graph))
<1>3. /\ graph \in HeaderGraphs /\ n \in Nat /\ Covers(graph, n, file[2].ids, file[2].ctx)
      /\ file[2].ctx \in Seq(Entries) /\ file[2].anns \in Seq(Entries)
  BY <1>2, GraphParts DEF RecordOK
<1>4. buf[p].ids = file[2].ids /\ buf[p].ids \in Seq(Nat)
  <2> DEFINE m == Len(RootsOf(buf[p].conf))
  <2>1. m \in Nat /\ Covers(buf[p].conf, m, buf[p].ids, buf[p].ctx)
    BY <1>2, GraphParts DEF RecordOK
  <2> HIDE DEF m, n
  <2>2. buf[p].ids = [i \in 1 .. m |-> i] /\ buf[p].ids \in Seq(Nat) /\ Len(buf[p].ids) = m
    BY <2>1, CoversIds
  <2>3. file[2].ids = [i \in 1 .. n |-> i] /\ Len(file[2].ids) = n
    BY <1>3, CoversIds
  <2>4. m = n
    BY <1>2, <2>2, <2>3
  <2> QED BY <2>2, <2>3, <2>4
<1>5. o \in Outs
  BY <1>3, <1>4 DEF Outs
<1>6. Shape'
  <2>1. out' \in [Proc -> Outs]
    BY <1>1, <1>2, <1>5 DEF Shape
  <2> HIDE DEF o, graph, n
  <2>2. pc' \in [Proc -> Phases]
    BY <1>1, <1>2 DEF Shape, Phases
  <2> QED BY <1>1, <1>2, <2>1, <2>2 DEF Shape
<1>7. pc'[p] = "hit" /\ out'[p] = o
  BY <1>1, <1>2 DEF Shape
<1>8. KeyOK(p)'
  BY <1>1, <1>2, <1>7 DEF KeyOK
<1>9. OutOK(p)'
  BY <1>7 DEF OutOK
<1>10. Covers(graph, n, o.ids, o.ctx)
  BY <1>3, <1>4
<1> HIDE DEF graph, n
<1>11. HitOK(p)'
  <2>1. o.ids = buf[p].ids
    OBVIOUS
  <2> HIDE DEF o
  <2> QED BY <1>1, <1>2, <1>3, <1>7, <1>10, <2>1 DEF HitOK, n
<1>12. RunOK(p)'
  BY <1>7, <1>8, <1>9, <1>11 DEF RunOK
<1> HIDE DEF o
<1> QED BY <1>1, <1>2, <1>6, <1>12, FileKept, OthersKept DEF Shape

LEMMA MissKeeps ==
  ASSUME IInv, NEW p \in Proc, Miss(p)
  PROVE  IInv'
<1>1. /\ text' = text /\ file' = file /\ conf' = conf /\ quiet' = quiet /\ out' = out
      /\ key' = key /\ buf' = [buf EXCEPT ![p] = None] /\ pc' = [pc EXCEPT ![p] = "parse"]
      /\ at' = [at EXCEPT ![p] = 1] /\ pc[p] = "read"
  BY DEF Miss
<1>2. Shape /\ KeyOK(p) /\ OutOK(p)
  BY <1>1 DEF IInv, RunOK
<1>3. Shape'
  <2>1. pc' \in [Proc -> Phases] /\ at' \in [Proc -> Nat \ {0}]
    BY <1>1, <1>2 DEF Shape, Phases
  <2> QED BY <1>1, <1>2, <2>1 DEF Shape
<1>4. pc'[p] = "parse" /\ at'[p] = 1 /\ out[p].ids = << >> /\ out[p].ctx = << >>
  BY <1>1, <1>2 DEF Shape, OutOK
<1>5. KeyOK(p)'
  BY <1>1, <1>2, <1>4 DEF KeyOK
<1>6. conf[p] \in HeaderGraphs /\ ParseRoots(p) = RootsOf(conf[p]) /\ Len(RootsOf(conf[p])) \in Nat
      /\ ParseRoots(p)' = ParseRoots(p)
  BY <1>1, <1>2, GraphParts DEF KeyOK, ParseRoots, RootsOf
<1>7. Covers(conf[p], 0, << >>, << >>) /\ DOMAIN << >> = {}
  BY DEF Covers
<1>8. OutOK(p)'
  BY <1>1, <1>2, <1>4, <1>6, <1>7 DEF OutOK
<1>9. RunOK(p)'
  BY <1>4, <1>5, <1>8 DEF RunOK
<1> QED BY <1>1, <1>2, <1>3, <1>9, FileKept, OthersKept DEF Shape

(* A class that was just parsed, and those of before.                        *)
LEMMA CtxMore ==
  ASSUME Shape, NEW p \in Proc, conf[p] \in HeaderGraphs, NEW root \in Roots \union {Synth},
         NEW ctx \in Seq(Entries),
         \A i \in DOMAIN ctx :
           /\ ctx[i].flags = conf[p].flags
           /\ quiet[p] => \A f \in Roots \intersect DOMAIN ctx[i].text : ctx[i].text[f] = text[f]
  PROVE  LET longer == Append(ctx, Parse(p, root))
         IN /\ longer \in Seq(Entries)
            /\ \A i \in DOMAIN longer :
                 /\ longer[i].flags = conf[p].flags
                 /\ quiet[p] => \A f \in Roots \intersect DOMAIN longer[i].text :
                                  longer[i].text[f] = text[f]
<1> DEFINE e == Parse(p, root)
           longer == Append(ctx, e)
<1>1. e \in Entries /\ e.flags = conf[p].flags /\ \A f \in DOMAIN e.text : e.text[f] = text[f]
  BY ParseEntry
<1> HIDE DEF e
<1>2. longer \in Seq(Entries)
  BY <1>1
<1>3. \A i \in DOMAIN longer : (i \in DOMAIN ctx /\ longer[i] = ctx[i]) \/ longer[i] = e
  BY <1>1
<1> HIDE DEF longer
<1>4. ASSUME NEW i \in DOMAIN longer
      PROVE  /\ longer[i].flags = conf[p].flags
             /\ quiet[p] => \A f \in Roots \intersect DOMAIN longer[i].text : longer[i].text[f] = text[f]
  BY <1>1, <1>3
<1> QED BY <1>2, <1>4 DEF longer, e

LEMMA ParseKeeps ==
  ASSUME IInv, NEW p \in Proc, ParseRoot(p)
  PROVE  IInv'
<1> DEFINE graph == conf[p]
           n == at[p]
           root == ParseRoots(p)[n]
           e == Parse(p, root)
           ctx == Append(out[p].ctx, e)
           ids == Append(out[p].ids, Len(out[p].ctx) + 1)
<1>1. /\ text' = text /\ file' = file /\ conf' = conf /\ quiet' = quiet /\ key' = key /\ buf' = buf
      /\ pc' = pc /\ at' = [at EXCEPT ![p] = n + 1] /\ pc[p] = "parse" /\ n <= Len(ParseRoots(p))
      /\ out' = [out EXCEPT ![p].ctx = ctx, ![p].ids = ids]
  BY DEF ParseRoot
<1>2. Shape /\ KeyOK(p) /\ OutOK(p)
  BY <1>1 DEF IInv, RunOK
<1>3. graph \in HeaderGraphs /\ ParseRoots(p) = RootsOf(graph) /\ n \in Nat \ {0}
      /\ ParseRoots(p)' = ParseRoots(p) /\ out[p] \in Outs
  BY <1>1, <1>2 DEF KeyOK, ParseRoots, RootsOf, Shape
<1>4. root \in Roots \union {Synth} /\ root = RootsOf(graph)[n]
  BY <1>1, <1>3, GraphParts
<1>5. out[p].ctx \in Seq(Entries) /\ out[p].ids \in Seq(Nat) /\ Len(out[p].ctx) = n - 1
      /\ Covers(graph, n - 1, out[p].ids, out[p].ctx)
  BY <1>1, <1>2, <1>3 DEF OutOK, Outs
<1>6. e \in Entries /\ e.root = root
  BY <1>2, <1>3, <1>4, ParseEntry
<1>7. /\ ctx \in Seq(Entries)
      /\ \A i \in DOMAIN ctx :
           /\ ctx[i].flags = conf[p].flags
           /\ quiet[p] => \A f \in Roots \intersect DOMAIN ctx[i].text : ctx[i].text[f] = text[f]
  BY <1>1, <1>2, <1>3, <1>4, <1>5, CtxMore DEF OutOK
<1> HIDE DEF e, root
<1>8. Covers(graph, n, ids, ctx) /\ Len(ctx) = n /\ ids \in Seq(Nat)
  <2>1. n - 1 \in Nat /\ (n - 1) + 1 = n /\ Len(out[p].ctx) + 1 = n
    BY <1>3, <1>5
  <2> HIDE DEF graph, n
  <2>2. Covers(graph, n, Append(out[p].ids, n), Append(out[p].ctx, e))
    <3> DEFINE m == n - 1
    <3>1. m \in Nat /\ m + 1 = n /\ Len(out[p].ctx) = m /\ Covers(graph, m, out[p].ids, out[p].ctx)
      BY <1>5, <2>1
    <3>2. e.root = RootsOf(graph)[m + 1]
      BY <1>4, <1>6, <3>1
    <3> HIDE DEF m
    <3>3. Covers(graph, m + 1, Append(out[p].ids, m + 1), Append(out[p].ctx, e))
      BY <1>3, <1>5, <1>6, <3>1, <3>2, CoversNext
    <3> QED BY <3>1, <3>3
  <2>3. ids = Append(out[p].ids, n)
    BY <2>1
  <2>4. Len(ctx) = n /\ ids \in Seq(Nat)
    BY <1>3, <1>5, <1>6, <2>1
  <2> QED BY <2>2, <2>3, <2>4
<1> HIDE DEF ctx, ids
<1>9. out' = [out EXCEPT ![p] = [out[p] EXCEPT !.ctx = ctx, !.ids = ids]]
  BY <1>1, <1>2 DEF Shape
<1>10. [out[p] EXCEPT !.ctx = ctx, !.ids = ids] \in Outs
  BY <1>3, <1>7, <1>8 DEF Outs
<1>11. Shape'
  <2>1. out' \in [Proc -> Outs]
    BY <1>2, <1>9, <1>10 DEF Shape
  <2>2. at' \in [Proc -> Nat \ {0}]
    BY <1>1, <1>2, <1>3 DEF Shape
  <2> QED BY <1>1, <1>2, <2>1, <2>2 DEF Shape
<1>12. at'[p] = n + 1 /\ out'[p].ctx = ctx /\ out'[p].ids = ids
  BY <1>1, <1>2, <1>3, <1>9 DEF Shape, Outs
<1>13. KeyOK(p)'
  BY <1>1, <1>2 DEF KeyOK
<1>14. OutOK(p)'
  <2>1. at'[p] - 1 = n /\ at'[p] <= Len(ParseRoots(p)) + 1
    BY <1>1, <1>3, <1>12, GraphParts
  <2>2. conf'[p] = graph /\ Covers(conf'[p], at'[p] - 1, out'[p].ids, out'[p].ctx)
    BY <1>1, <1>8, <1>12, <2>1
  <2>3. Len(out'[p].ctx) = at'[p] - 1 /\ pc'[p] = "parse"
    BY <1>1, <1>8, <1>12, <2>1
  <2>4. \A i \in DOMAIN out'[p].ctx :
          /\ out'[p].ctx[i].flags = conf'[p].flags
          /\ quiet'[p] => \A f \in Roots \intersect DOMAIN out'[p].ctx[i].text :
                            out'[p].ctx[i].text[f] = text'[f]
    <3>1. out'[p].ctx = ctx /\ conf'[p] = conf[p] /\ quiet'[p] = quiet[p] /\ text' = text
      BY <1>1, <1>12
    <3> QED BY <1>7, <3>1
  <2> QED BY <1>3, <2>1, <2>2, <2>3, <2>4 DEF OutOK
<1>15. RunOK(p)'
  BY <1>1, <1>13, <1>14 DEF RunOK
<1> QED BY <1>1, <1>2, <1>9, <1>11, <1>15, FileKept, OthersKept DEF Shape

LEMMA ParsedKeeps ==
  ASSUME IInv, NEW p \in Proc, ParsedAll(p)
  PROVE  IInv'
<1>1. /\ text' = text /\ file' = file /\ conf' = conf /\ quiet' = quiet /\ key' = key /\ buf' = buf
      /\ pc' = [pc EXCEPT ![p] = "annotate"] /\ at' = [at EXCEPT ![p] = 1] /\ out' = out
      /\ pc[p] = "parse" /\ at[p] > Len(ParseRoots(p))
  BY DEF ParsedAll
<1>2. Shape /\ KeyOK(p) /\ OutOK(p)
  BY <1>1 DEF IInv, RunOK
<1>3. Shape'
  <2>1. pc' \in [Proc -> Phases] /\ at' \in [Proc -> Nat \ {0}]
    BY <1>1, <1>2 DEF Shape, Phases
  <2> QED BY <1>1, <1>2, <2>1 DEF Shape
<1>4. pc'[p] = "annotate" /\ at'[p] = 1 /\ at[p] \in Nat
  BY <1>1, <1>2 DEF Shape
<1>5. KeyOK(p)'
  BY <1>1, <1>2, <1>4 DEF KeyOK
<1>6. conf[p] \in HeaderGraphs /\ ParseRoots(p) = RootsOf(conf[p]) /\ Len(RootsOf(conf[p])) \in Nat
      /\ ParseRoots(p)' = ParseRoots(p)
  BY <1>1, <1>2, GraphParts DEF KeyOK, ParseRoots, RootsOf
<1>7. at[p] - 1 = Len(ParseRoots(p))
  BY <1>1, <1>2, <1>4, <1>6 DEF OutOK
<1>8. OutOK(p)'
  BY <1>1, <1>2, <1>4, <1>6, <1>7 DEF OutOK
<1>9. RunOK(p)'
  BY <1>4, <1>5, <1>8 DEF RunOK
<1> QED BY <1>1, <1>2, <1>3, <1>9, FileKept, OthersKept DEF Shape

LEMMA TwoFields ==
  ASSUME NEW I, NEW C, NEW A, NEW o \in [ids : I, ctx : C, anns : A], NEW ctx, NEW anns
  PROVE  [o EXCEPT !.ctx = ctx, !.anns = anns] = [[o EXCEPT !.ctx = ctx] EXCEPT !.anns = anns]
OBVIOUS

LEMMA LastField ==
  ASSUME NEW ids, NEW ctx, NEW old, NEW anns
  PROVE  [[ids |-> ids, ctx |-> ctx, anns |-> old] EXCEPT !.anns = anns]
           = [ids |-> ids, ctx |-> ctx, anns |-> anns]
OBVIOUS

LEMMA OutParts ==
  ASSUME NEW o \in Outs, NEW ctx, NEW anns
  PROVE  /\ [o EXCEPT !.ctx = ctx] = [ids |-> o.ids, ctx |-> ctx, anns |-> o.anns]
         /\ [o EXCEPT !.ctx = ctx, !.anns = anns] = [ids |-> o.ids, ctx |-> ctx, anns |-> anns]
<1>1. PICK half : half = [o EXCEPT !.ctx = ctx]
  OBVIOUS
<1>2. half = [ids |-> o.ids, ctx |-> ctx, anns |-> o.anns]
  BY <1>1 DEF Outs
<1>3. [half EXCEPT !.anns = anns] = [ids |-> o.ids, ctx |-> ctx, anns |-> anns]
  BY <1>2, LastField
<1>4. [o EXCEPT !.ctx = ctx, !.anns = anns] = [half EXCEPT !.anns = anns]
  BY <1>1, TwoFields DEF Outs
<1> QED BY <1>1, <1>2, <1>3, <1>4

LEMMA AnnotateKeeps ==
  ASSUME IInv, NEW p \in Proc, Annotate(p)
  PROVE  IInv'
<1> DEFINE root == conf[p].roots[at[p]]
           e == Parse(p, root)
           ctx == Append(out[p].ctx, e)
<1>1. /\ text' = text /\ file' = file /\ conf' = conf /\ quiet' = quiet /\ key' = key /\ buf' = buf
      /\ pc' = pc /\ at' = [at EXCEPT ![p] = at[p] + 1]
      /\ pc[p] = "annotate" /\ at[p] <= Len(conf[p].roots)
  BY DEF Annotate
<1>2. Shape /\ KeyOK(p) /\ OutOK(p)
  BY <1>1 DEF IInv, RunOK
<1>3. /\ conf[p] \in HeaderGraphs /\ at[p] \in Nat \ {0} /\ out[p] \in Outs
      /\ ParseRoots(p) = RootsOf(conf[p]) /\ ParseRoots(p)' = ParseRoots(p)
  BY <1>1, <1>2 DEF KeyOK, Shape, ParseRoots, RootsOf
<1>4. root \in Roots \union {Synth}
  BY <1>1, <1>3, GraphParts
<1>5. e \in Entries
  BY <1>2, <1>3, <1>4, ParseEntry
<1>6. out[p].ctx \in Seq(Entries) /\ out[p].anns \in Seq(Entries) /\ out[p].ids \in Seq(Nat)
  BY <1>3 DEF Outs
<1>7. /\ ctx \in Seq(Entries)
      /\ \A i \in DOMAIN ctx :
           /\ ctx[i].flags = conf[p].flags
           /\ quiet[p] => \A f \in Roots \intersect DOMAIN ctx[i].text : ctx[i].text[f] = text[f]
  BY <1>1, <1>2, <1>3, <1>4, <1>6, CtxMore DEF OutOK
<1>8. Covers(conf[p], Len(ParseRoots(p)), out[p].ids, ctx)
  BY <1>1, <1>2, <1>3, <1>5, <1>6, CoversMore, GraphParts DEF OutOK
<1>9. PICK anns \in Seq(Entries) : out' = [out EXCEPT ![p] = [ids |-> out[p].ids, ctx |-> ctx, anns |-> anns]]
  <2> HIDE DEF e
  <2>1. CASE out' = [out EXCEPT ![p].ctx = Append(@, e), ![p].anns = Append(@, e)]
    <3>1. Append(out[p].anns, e) \in Seq(Entries)
      BY <1>5, <1>6
    <3>2. out' = [out EXCEPT ![p] = [ids |-> out[p].ids, ctx |-> ctx, anns |-> Append(out[p].anns, e)]]
      <4>1. [out[p] EXCEPT !.ctx = ctx, !.anns = Append(out[p].anns, e)]
              = [ids |-> out[p].ids, ctx |-> ctx, anns |-> Append(out[p].anns, e)]
        BY <1>3, OutParts
      <4>2. out' = [out EXCEPT ![p] = [out[p] EXCEPT !.ctx = ctx, !.anns = Append(out[p].anns, e)]]
        BY <1>2, <2>1 DEF Shape
      <4> QED BY <4>1, <4>2
    <3> QED BY <3>1, <3>2
  <2>2. CASE out' = [out EXCEPT ![p].ctx = Append(@, e)]
    <3>1. out' = [out EXCEPT ![p] = [ids |-> out[p].ids, ctx |-> ctx, anns |-> out[p].anns]]
      <4>1. [out[p] EXCEPT !.ctx = ctx] = [ids |-> out[p].ids, ctx |-> ctx, anns |-> out[p].anns]
        BY <1>3, OutParts
      <4>2. out' = [out EXCEPT ![p] = [out[p] EXCEPT !.ctx = ctx]]
        BY <1>2, <2>2 DEF Shape
      <4> QED BY <4>1, <4>2
    <3> QED BY <1>6, <3>1
  <2> QED BY <2>1, <2>2 DEF Annotate, e
<1> DEFINE o == [ids |-> out[p].ids, ctx |-> ctx, anns |-> anns]
<1>10. o \in Outs /\ o.ids = out[p].ids /\ o.ctx = ctx /\ out' = [out EXCEPT ![p] = o]
  BY <1>6, <1>7, <1>9 DEF Outs
<1> HIDE DEF ctx, o
<1>11. Shape'
  <2>1. out' \in [Proc -> Outs]
    BY <1>2, <1>10 DEF Shape
  <2>2. at' \in [Proc -> Nat \ {0}]
    BY <1>1, <1>2, <1>3 DEF Shape
  <2> QED BY <1>1, <1>2, <2>1, <2>2 DEF Shape
<1>12. out'[p] = o
  BY <1>2, <1>10 DEF Shape
<1>13. KeyOK(p)'
  BY <1>1, <1>2 DEF KeyOK
<1>14. OutOK(p)'
  BY <1>1, <1>3, <1>7, <1>8, <1>10, <1>12 DEF OutOK
<1>15. RunOK(p)'
  BY <1>1, <1>13, <1>14 DEF RunOK
<1> QED BY <1>1, <1>2, <1>10, <1>11, <1>15, FileKept, OthersKept DEF Shape

-----------------------------------------------------------------------------
LEMMA TruncateKeeps ==
  ASSUME IInv, NEW p \in Proc, Truncate(p)
  PROVE  IInv'
<1>1. /\ text' = text /\ file' = NoFile /\ conf' = conf /\ quiet' = quiet /\ key' = key /\ buf' = buf
      /\ pc' = [pc EXCEPT ![p] = "write"] /\ at' = [at EXCEPT ![p] = 1] /\ out' = out
      /\ pc[p] = "annotate"
  BY DEF Truncate
<1>2. Shape /\ KeyOK(p) /\ OutOK(p)
  BY <1>1 DEF IInv, RunOK
<1>3. file' = <<file'[1], file'[2]>> /\ file'[1] = None /\ file'[2] = None
  BY <1>1 DEF NoFile
<1>4. Shape'
  <2>1. pc' \in [Proc -> Phases] /\ at' \in [Proc -> Nat \ {0}]
    BY <1>1, <1>2 DEF Shape, Phases
  <2> QED BY <1>1, <1>2, <1>3, <2>1 DEF Shape
<1>5. pc'[p] = "write" /\ ParseRoots(p)' = ParseRoots(p)
  BY <1>1, <1>2 DEF Shape, ParseRoots
<1>6. KeyOK(p)' /\ OutOK(p)'
  BY <1>1, <1>2, <1>5 DEF KeyOK, OutOK
<1>7. RunOK(p)'
  BY <1>5, <1>6 DEF RunOK
<1>8. FileOK'
  BY <1>3 DEF FileOK
<1> QED BY <1>1, <1>2, <1>4, <1>7, <1>8, OthersKept DEF Shape

LEMMA RecordWhole ==
  ASSUME IInv, NEW p \in Proc, pc[p] = "write"
  PROVE  RecordOK(Record(p))
<1>1. Shape /\ KeyOK(p) /\ OutOK(p)
  BY DEF IInv, RunOK
<1>2. /\ conf[p] \in HeaderGraphs /\ key[p] \in Keys /\ out[p] \in Outs
      /\ ParseRoots(p) = RootsOf(conf[p])
  BY <1>1 DEF Shape, KeyOK, ParseRoots, RootsOf
<1> DEFINE r == Record(p)
<1>3. /\ r.conf = conf[p] /\ r.key = key[p] /\ r.ids = out[p].ids /\ r.ctx = out[p].ctx
      /\ r.anns = out[p].anns /\ r.quiet = quiet[p]
  BY DEF Record
<1> HIDE DEF r
<1>4. r.ctx \in Seq(Entries) /\ r.anns \in Seq(Entries)
  BY <1>2, <1>3 DEF Outs
<1>5. Covers(r.conf, Len(RootsOf(r.conf)), r.ids, r.ctx)
  BY <1>1, <1>2, <1>3 DEF OutOK
<1>6. r.key.flags = r.conf.flags /\ Len(r.key.digest) = Len(Sorted)
  BY <1>1, <1>3 DEF KeyOK
<1>7. \A i \in DOMAIN r.ctx : r.ctx[i].flags = r.conf.flags
  BY <1>1, <1>3 DEF OutOK
<1>8. ASSUME r.quiet, NEW i \in DOMAIN r.ctx, NEW k \in DOMAIN Sorted,
             Sorted[k] \in DOMAIN r.ctx[i].text
      PROVE  r.ctx[i].text[Sorted[k]] = r.key.digest[k]
  <2>1. Sorted[k] \in Roots
    BY SortedList
  <2>2. r.ctx[i].text[Sorted[k]] = text[Sorted[k]]
    BY <1>1, <1>3, <1>8, <2>1 DEF OutOK
  <2>3. key[p].digest \in Seq(Text) /\ Len(key[p].digest) = Len(Sorted)
    BY <1>2, <1>3, <1>6 DEF Keys
  <2>4. k \in DOMAIN key[p].digest
    BY <2>3, SortedList
  <2>5. key[p].digest[k] = text[Sorted[k]]
    BY <1>1, <1>3, <1>8, <2>4 DEF KeyOK
  <2> QED BY <1>3, <2>2, <2>5
<1> QED BY <1>2, <1>3, <1>4, <1>5, <1>6, <1>7, <1>8 DEF RecordOK, r

LEMMA WriteKeeps ==
  ASSUME IInv, NEW p \in Proc, WritePart(p)
  PROVE  IInv'
<1>1. /\ text' = text /\ conf' = conf /\ quiet' = quiet /\ key' = key /\ buf' = buf /\ out' = out
      /\ pc' = [pc EXCEPT ![p] = IF at[p] = 2 THEN "done" ELSE pc[p]]
      /\ at' = [at EXCEPT ![p] = at[p] + 1] /\ file' = [file EXCEPT ![at[p]] = Record(p)]
      /\ pc[p] = "write" /\ at[p] <= 2
  BY DEF WritePart
<1>2. Shape /\ KeyOK(p) /\ OutOK(p) /\ FileOK
  BY <1>1 DEF IInv, RunOK
<1>3. at[p] \in {1, 2}
  BY <1>1, <1>2 DEF Shape
<1>4. file = <<file[1], file[2]>>
  BY <1>2 DEF Shape
<1>5. /\ file' = <<file'[1], file'[2]>>
      /\ \A i \in {1, 2} : file'[i] = file[i] \/ file'[i] = Record(p)
  <2>1. CASE at[p] = 1
    <3>1. file' = <<Record(p), file[2]>>
      BY <1>1, <1>4, <2>1
    <3> QED BY <3>1
  <2>2. CASE at[p] = 2
    <3>1. file' = <<file[1], Record(p)>>
      BY <1>1, <1>4, <2>2
    <3> QED BY <3>1
  <2> QED BY <1>3, <2>1, <2>2
<1>6. FileOK'
  BY <1>1, <1>2, <1>5, RecordWhole DEF FileOK
<1>7. pc'[p] \in {"write", "done"} /\ at' \in [Proc -> Nat \ {0}] /\ pc' \in [Proc -> Phases]
  BY <1>1, <1>2, <1>3 DEF Shape, Phases
<1>8. Shape'
  BY <1>1, <1>2, <1>5, <1>7 DEF Shape
<1>9. ParseRoots(p)' = ParseRoots(p)
  BY <1>1 DEF ParseRoots
<1>10. KeyOK(p)' /\ OutOK(p)'
  BY <1>1, <1>2, <1>7, <1>9 DEF KeyOK, OutOK
<1>11. RunOK(p)'
  BY <1>7, <1>10 DEF RunOK
<1> QED BY <1>1, <1>2, <1>6, <1>8, <1>11, OthersKept DEF Shape

LEMMA AbortKeeps ==
  ASSUME IInv, NEW p \in Proc, Abort(p)
  PROVE  IInv'
<1>1. /\ text' = text /\ file' = file /\ pc' = [pc EXCEPT ![p] = "idle"]
      /\ conf' = [conf EXCEPT ![p] = NoConf]
      /\ key' = [key EXCEPT ![p] = NoKey] /\ at' = [at EXCEPT ![p] = 1]
      /\ buf' = [buf EXCEPT ![p] = None] /\ out' = [out EXCEPT ![p] = Nothing]
      /\ quiet' = [quiet EXCEPT ![p] = TRUE]
  BY DEF Abort
<1>2. NoKey \in Keys /\ Nothing \in Outs
  BY EmptyOut DEF NoKey, Nothing, Keys, Outs
<1>3. Shape
  BY DEF IInv
<1>4. Shape'
  <2>1. pc' \in [Proc -> Phases] /\ conf' \in [Proc -> HeaderGraphs \union {NoConf}]
    BY <1>1, <1>3 DEF Shape, Phases
  <2>2. key' \in [Proc -> Keys] /\ at' \in [Proc -> Nat \ {0}]
    BY <1>1, <1>2, <1>3 DEF Shape
  <2>3. out' \in [Proc -> Outs]
    BY <1>1, <1>2, <1>3 DEF Shape
  <2>4. quiet' \in [Proc -> BOOLEAN] /\ buf' = [q \in Proc |-> buf'[q]]
    BY <1>1, <1>3 DEF Shape
  <2> QED BY <1>1, <1>3, <2>1, <2>2, <2>3, <2>4 DEF Shape
<1>5. RunOK(p)'
  BY <1>1, <1>3 DEF Shape, RunOK
<1> QED BY <1>1, <1>3, <1>4, <1>5, FileKept, OthersKept DEF Shape

LEMMA EditKeeps ==
  ASSUME IInv, NEW f \in File, Edit(f)
  PROVE  IInv'
<1>1. PICK x \in Text : text' = [text EXCEPT ![f] = x]
  BY DEF Edit
<1>2. /\ file' = file /\ pc' = pc /\ conf' = conf /\ key' = key /\ at' = at /\ buf' = buf /\ out' = out
      /\ quiet' = [q \in Proc |-> pc[q] = "idle"]
  BY DEF Edit
<1>3. Shape
  BY DEF IInv
<1>4. Shape'
  BY <1>1, <1>2, <1>3 DEF Shape
<1>5. ASSUME NEW q \in Proc, pc[q] # "idle" PROVE RunOK(q)'
  <2>1. ~quiet'[q] /\ KeyOK(q) /\ OutOK(q) /\ ParseRoots(q)' = ParseRoots(q)
    BY <1>2, <1>5 DEF IInv, RunOK, ParseRoots
  <2>2. KeyOK(q)'
    BY <1>2, <2>1 DEF KeyOK
  <2>3. OutOK(q)'
    BY <1>2, <2>1 DEF OutOK
  <2>4. HitOK(q) => HitOK(q)'
    BY <1>2 DEF HitOK
  <2>5. RunOK(q)
    BY DEF IInv
  <2> QED BY <1>2, <1>5, <2>2, <2>3, <2>4, <2>5 DEF RunOK
<1>6. \A q \in Proc : RunOK(q)'
  BY <1>2, <1>5 DEF RunOK
<1> QED BY <1>2, <1>4, <1>6, FileKept DEF IInv

LEMMA CacheCorrect == Spec => []IInv
<1>1. Init => IInv
  <2> SUFFICES ASSUME Init PROVE IInv
    OBVIOUS
  <2>1. NoKey \in Keys /\ Nothing \in Outs
    BY EmptyOut DEF NoKey, Nothing, Keys, Outs
  <2>2. Shape
    <3>1. file = <<file[1], file[2]>>
      BY DEF Init, NoFile
    <3>2. key \in [Proc -> Keys] /\ out \in [Proc -> Outs]
      BY <2>1 DEF Init
    <3>3. /\ text \in [File -> Text] /\ pc \in [Proc -> Phases] /\ at \in [Proc -> Nat \ {0}]
          /\ conf \in [Proc -> HeaderGraphs \union {NoConf}]
      BY DEF Init, Phases
    <3>4. quiet \in [Proc -> BOOLEAN] /\ buf = [p \in Proc |-> buf[p]]
      BY DEF Init
    <3> QED BY <3>1, <3>2, <3>3, <3>4 DEF Shape
  <2>3. FileOK
    BY DEF Init, NoFile, FileOK
  <2>4. \A p \in Proc : RunOK(p)
    BY DEF Init, RunOK
  <2> QED BY <2>2, <2>3, <2>4 DEF IInv
<1>2. IInv /\ [Next]_vars => IInv'
  <2> SUFFICES ASSUME IInv, [Next]_vars PROVE IInv'
    OBVIOUS
  <2>1. CASE UNCHANGED vars
    <3>1. /\ text' = text /\ file' = file /\ pc' = pc /\ conf' = conf /\ key' = key /\ at' = at
          /\ buf' = buf /\ out' = out /\ quiet' = quiet
      BY <2>1 DEF vars, locals
    <3>2. \A p \in Proc : RunOK(p)'
      BY <3>1, RunKept DEF IInv
    <3>3. Shape'
      BY <3>1 DEF IInv, Shape
    <3> QED BY <3>1, <3>2, <3>3, FileKept DEF IInv
  <2> QED BY <2>1, StartKeeps, HashKeeps, ComputeKeeps, ReadKeeps, HitKeeps, MissKeeps, ParseKeeps,
             ParsedKeeps, AnnotateKeeps, TruncateKeeps, WriteKeeps, AbortKeeps, EditKeeps DEF Next
<1> QED BY <1>1, <1>2, PTL DEF Spec

-----------------------------------------------------------------------------
(* HitRootsFresh: a quiet hit on a quiet record returns what is on disk.     *)
THEOREM HitCorrect == Spec => []HitRootsFresh
<1>1. IInv => HitRootsFresh
  <2> SUFFICES ASSUME IInv, NEW p \in Proc, pc[p] = "hit", quiet[p], buf[p].quiet,
                      buf[p].ctx = out[p].ctx, NEW i \in ToSet(out[p].ids)
               PROVE  /\ out[p].ctx[i].flags = conf[p].flags
                      /\ \A f \in Roots \intersect DOMAIN out[p].ctx[i].text :
                           out[p].ctx[i].text[f] = text[f]
    BY DEF HitRootsFresh
  <2> DEFINE r == buf[p]
             n == Len(RootsOf(r.conf))
  <2>1. KeyOK(p) /\ HitOK(p) /\ RecordOK(r) /\ r.key = key[p] /\ r.ids = out[p].ids
    BY DEF IInv, RunOK, HitOK
  <2>2. n \in Nat /\ r.ctx \in Seq(Entries) /\ Covers(r.conf, n, r.ids, r.ctx)
    BY <2>1, GraphParts DEF RecordOK
  <2> HIDE DEF n, r
  <2>3. r.ids = [j \in 1 .. n |-> j] /\ n <= Len(r.ctx) /\ DOMAIN r.ids = 1 .. n
    BY <2>2 DEF Covers
  <2>4. i \in 1 .. n
    BY <2>1, <2>3 DEF ToSet
  <2>5. i \in DOMAIN r.ctx /\ r.ctx = out[p].ctx /\ r.quiet
    BY <2>2, <2>3, <2>4 DEF r
  <2>6. out[p].ctx[i].flags = conf[p].flags
    BY <2>1, <2>5 DEF RecordOK, KeyOK
  <2>7. ASSUME NEW f \in Roots, f \in DOMAIN r.ctx[i].text
        PROVE  r.ctx[i].text[f] = text[f]
    <3>1. PICK k \in DOMAIN Sorted : Sorted[k] = f
      BY SortedList
    <3>2. r.ctx[i].text[f] = r.key.digest[k]
      BY <2>1, <2>5, <2>7, <3>1 DEF RecordOK
    <3>3. key[p].digest \in Seq(Text) /\ Len(key[p].digest) = Len(Sorted)
      BY <2>1 DEF RecordOK, Keys
    <3>4. k \in DOMAIN key[p].digest
      BY <3>3, SortedList
    <3>5. key[p].digest[k] = text[f]
      BY <2>1, <3>1, <3>4 DEF KeyOK
    <3> QED BY <2>1, <3>2, <3>5
  <2> QED BY <2>5, <2>6, <2>7
<1> QED BY <1>1, CacheCorrect, PTL

(* IdsCoverRoots: the ids are those of the roots, in one order, and of the   *)
(* synthetic root after them.                                                *)
THEOREM IdsCorrect == Spec => []IdsCoverRoots
<1>1. IInv => IdsCoverRoots
  <2> SUFFICES ASSUME IInv, NEW p \in Proc, pc[p] \in {"hit", "done"}
               PROVE  \E list \in RootLists :
                        [i \in DOMAIN out[p].ids |-> out[p].ctx[out[p].ids[i]].root]
                          \in {list, Append(list, Synth)}
    BY DEF IdsCoverRoots
  <2>1. KeyOK(p) /\ OutOK(p) /\ (pc[p] = "hit" => HitOK(p))
    BY DEF IInv, RunOK
  <2>2. PICK graph \in HeaderGraphs : Covers(graph, Len(RootsOf(graph)), out[p].ids, out[p].ctx)
    BY <2>1 DEF HitOK, KeyOK, OutOK, ParseRoots, RootsOf
  <2> DEFINE n == Len(RootsOf(graph))
             roots == [i \in DOMAIN out[p].ids |-> out[p].ctx[out[p].ids[i]].root]
  <2>3. /\ graph.roots \in RootLists /\ graph.roots \in Seq(Roots) /\ n \in Nat
        /\ RootsOf(graph) \in Seq(Roots \union {Synth})
    BY GraphParts
  <2>4. out[p].ids = [i \in 1 .. n |-> i] /\ \A i \in 1 .. n : out[p].ctx[i].root = RootsOf(graph)[i]
    BY <2>2 DEF Covers
  <2>5. RootsOf(graph) = [i \in 1 .. n |-> RootsOf(graph)[i]]
    BY <2>3
  <2>6. roots = RootsOf(graph)
    BY <2>4, <2>5
  <2>7. RootsOf(graph) \in {graph.roots, Append(graph.roots, Synth)}
    <3>1. PICK s \in Seq(Roots \union {Synth}) : s = graph.roots
      BY <2>3
    <3>2. s \o <<>> = s
      OBVIOUS
    <3>3. s \o <<Synth>> = Append(s, Synth)
      OBVIOUS
    <3> QED BY <3>1, <3>2, <3>3 DEF RootsOf
  <2> QED BY <2>3, <2>6, <2>7
<1> QED BY <1>1, CacheCorrect, PTL

(* NoNeedlessMiss: only an edit of a root invalidates a quiet record.        *)
THEOREM MissCorrect == Spec => NoNeedlessMiss
<1> DEFINE Step(p) ==
      /\ pc[p] = "read" /\ pc'[p] = "parse" /\ quiet[p]
      /\ file[1] # None /\ file[1] = file[2] /\ file[1].quiet
      /\ buf[p] = file[1]
      /\ buf[p].conf = conf[p]
      => \E i \in ToSet(buf[p].ids) :
           \E f \in Roots \intersect DOMAIN buf[p].ctx[i].text : buf[p].ctx[i].text[f] # text[f]
<1>1. IInv /\ [Next]_vars => [\A p \in Proc : Step(p)]_vars
  <2> SUFFICES ASSUME IInv, Next, NEW p \in Proc,
                      pc[p] = "read", pc'[p] = "parse", quiet[p], file[1] # None, file[1] = file[2],
                      file[1].quiet, buf[p] = file[1], buf[p].conf = conf[p]
               PROVE  \E i \in ToSet(buf[p].ids) :
                        \E f \in Roots \intersect DOMAIN buf[p].ctx[i].text :
                          buf[p].ctx[i].text[f] # text[f]
    OBVIOUS
  <2>1. Shape /\ KeyOK(p) /\ RecordOK(buf[p]) /\ key[p] \in Keys
    BY DEF IInv, RunOK, Shape
  <2>2. Miss(p)
    <3>1. ASSUME NEW q \in Proc, \/ Start(q) \/ HashHeader(q) \/ ComputeKey(q) \/ ReadFirst(q)
                                 \/ Hit(q) \/ ParseRoot(q) \/ ParsedAll(q) \/ Annotate(q)
                                 \/ Truncate(q) \/ WritePart(q) \/ Abort(q)
          PROVE  FALSE
      <4>1. \/ pc' = pc
            \/ \E phase \in Phases \ {"parse"} : pc' = [pc EXCEPT ![q] = phase]
        BY <3>1, <2>1 DEF Start, HashHeader, ComputeKey, ReadFirst, Hit, ParseRoot, ParsedAll,
                          Annotate, Truncate, WritePart, Abort, Phases, Shape
      <4> QED BY <2>1, <4>1 DEF Shape
    <3>2. ASSUME NEW q \in Proc, Miss(q) PROVE q = p
      <4>1. pc' = [pc EXCEPT ![q] = "parse"]
        BY <3>2 DEF Miss
      <4> QED BY <2>1, <4>1 DEF Shape
    <3>3. ASSUME NEW f \in File, Edit(f) PROVE FALSE
      BY <3>3 DEF Edit
    <3> QED BY <3>1, <3>2, <3>3 DEF Next
  <2> DEFINE r == buf[p]
             n == Len(RootsOf(r.conf))
  <2>3. r.key # key[p]
    BY <2>2 DEF Miss, Parses
  <2>4. r.key \in Keys /\ r.key.flags = key[p].flags /\ Len(r.key.digest) = Len(Sorted)
        /\ Len(key[p].digest) = Len(Sorted) /\ r.conf \in HeaderGraphs
    BY <2>1 DEF RecordOK, KeyOK
  <2> HIDE DEF r, n
  <2>5. PICK k \in 1 .. Len(Sorted) : r.key.digest[k] # key[p].digest[k]
    <3>1. r.key.digest \in Seq(Text) /\ key[p].digest \in Seq(Text)
      BY <2>1, <2>4 DEF Keys
    <3>2. r.key.digest # key[p].digest
      BY <2>1, <2>3, <2>4 DEF Keys
    <3> QED BY <2>4, <3>1, <3>2
  <2>6. key[p].digest[k] = text[Sorted[k]] /\ k \in DOMAIN Sorted /\ Sorted[k] \in Roots
    <3>1. key[p].digest \in Seq(Text)
      BY <2>1 DEF Keys
    <3>2. k \in DOMAIN key[p].digest
      BY <2>4, <3>1
    <3> QED BY <2>1, <3>2, SortedList DEF KeyOK
  <2>7. PICK i \in 1 .. n : RootsOf(r.conf)[i] = Sorted[k]
    BY <2>4, <2>6, GraphParts DEF n
  <2>8. /\ n \in Nat /\ r.ctx \in Seq(Entries) /\ Covers(r.conf, n, r.ids, r.ctx)
        /\ RecordOK(r) /\ r.quiet
    BY <2>1, <2>4, GraphParts DEF RecordOK, r, n
  <2>9. i \in DOMAIN r.ctx /\ r.ctx[i] \in Entries /\ r.ctx[i].root = Sorted[k]
    BY <2>7, <2>8 DEF Covers
  <2>10. Sorted[k] \in DOMAIN r.ctx[i].text
    BY <2>6, <2>9, NamesAssumption DEF Entries, File
  <2>11. r.ctx[i].text[Sorted[k]] # text[Sorted[k]]
    BY <2>5, <2>6, <2>8, <2>9, <2>10 DEF RecordOK
  <2>12. i \in ToSet(r.ids)
    BY <2>7, <2>8 DEF Covers, ToSet
  <2> QED BY <2>6, <2>10, <2>11, <2>12 DEF r
<1> QED BY <1>1, CacheCorrect, PTL DEF Spec, NoNeedlessMiss
=============================================================================
