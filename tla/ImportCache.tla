----------------------------- MODULE ImportCache -----------------------------
(***************************************************************************)
(* The on-disk import cache: Driver::load_or_parse                         *)
(* (crates/cxx_importer/src/driver.rs) over crates/cxx_importer/src/cache. *)
(*                                                                         *)
(* Build scripts run load_or_parse on one cache path, while headers are    *)
(* edited between and during their runs; a run may fail, or be killed.  A  *)
(* parse is abstracted to what libclang saw: the root, the text of the     *)
(* root and of the headers it includes, the flags.  A class stands for the *)
(* parse that defined it, so a ctx is a sequence of parses.  The cache     *)
(* file has two parts, in the order serde writes the record: key and       *)
(* class_ids, then ctx and annotations.                                    *)
(***************************************************************************)
EXTENDS Naturals, Sequences, SequencesExt, FiniteSets

CONSTANTS
  Proc,          \* build scripts sharing the cache path
  HeaderGraphs,  \* what load_or_parse is called on: roots, flags, templates
  Included,      \* headers the roots include
  None,          \* no template_instantiations; nothing in the file
  Text,          \* contents of a header
  MaxEdits,      \* bound on edits of headers
  MaxRuns        \* bound on runs of load_or_parse

(* The graphs differ in the order of their roots; sorted_headers takes one.  *)
RootLists == {graph.roots : graph \in HeaderGraphs}
Flags == {graph.flags : graph \in HeaderGraphs}
Templates == {graph.templates : graph \in HeaderGraphs}
Sorted == CHOOSE list \in RootLists : TRUE
Roots == ToSet(Sorted)
File == Roots \union Included
Synth == "synth"  \* the synthetic instantiation root

ASSUME GraphsAssumption ==
  /\ HeaderGraphs # {}
  /\ HeaderGraphs \subseteq [roots : RootLists, flags : Flags, templates : Templates]
ASSUME RootsAssumption == \A list \in RootLists : list \in Seq(Roots) /\ ToSet(list) = Roots
ASSUME NamesAssumption == None \notin Text \union Flags /\ Synth \notin File
ASSUME BoundsAssumption == MaxEdits \in Nat /\ MaxRuns \in Nat

VARIABLES
  text,    \* the headers on disk
  file,    \* the cache file: its two parts
  pc,      \* of each build script
  conf,    \* its HeaderGraph: Driver::graph
  key,     \* the cache key it is computing
  at,      \* how far its loop has got
  buf,     \* the part of the cache file it has read
  out,     \* its class_ids, caller_ctx and caller_annotations
  quiet,   \* no header was edited since this run started (history)
  edits,   \* how many edits there were
  runs     \* how many runs started

locals == <<pc, conf, key, at, buf, out, quiet>>
vars == <<text, file, locals, edits, runs>>

-----------------------------------------------------------------------------
NoConf == [roots |-> Sorted, flags |-> None, templates |-> None]
NoKey == [flags |-> None, digest |-> << >>]
Nothing == [ids |-> << >>, ctx |-> << >>, anns |-> << >>]
NoFile == <<None, None>>

(* What libclang makes of a root: all it reads at that moment.  The synthetic *)
(* root includes every root.                                                  *)
Parse(p, root) ==
  LET reads == (IF root = Synth THEN Roots ELSE {root}) \union Included
  IN [root |-> root, flags |-> conf[p].flags,
      templates |-> IF root = Synth THEN conf[p].templates ELSE None,
      text |-> [f \in reads |-> text[f]]]

(* parse_all goes over the roots, then over the synthetic one, if any.       *)
ParseRoots(p) ==
  conf[p].roots \o (IF conf[p].templates = None THEN << >> ELSE <<Synth>>)

(* compute_cache_key: the argv and the digest of the sorted roots.           *)
KeyFirstBug(p) == [flags |-> conf[p].flags, digest |-> <<Head(key[p].digest)>>]
KeyProcBug(p) == [flags |-> conf[p].flags, digest |-> key[p].digest, dir |-> p]
Key(p) == [flags |-> conf[p].flags, digest |-> key[p].digest]

(* The record load_or_parse writes; conf and quiet are history of its run.   *)
Record(p) ==
  [key |-> key[p], ids |-> out[p].ids, ctx |-> out[p].ctx, anns |-> out[p].anns,
   conf |-> conf[p], quiet |-> quiet[p]]

(* A record comes out of what was read when both parts are there and fit:    *)
(* those of two records fit if these have the same shape, as records of two  *)
(* texts of one header may be (Miss: they need not).  A torn file is none.    *)
ParsesBug(first, second) == first # None /\ second # None
Parses(first, second) ==
  /\ first # None /\ second # None
  /\ Len(first.ids) = Len(second.ids) /\ Len(first.anns) = Len(second.anns)

Init ==
  /\ text \in [File -> Text]
  /\ file = NoFile
  /\ pc = [p \in Proc |-> "idle"]
  /\ conf = [p \in Proc |-> NoConf]
  /\ key = [p \in Proc |-> NoKey]
  /\ at = [p \in Proc |-> 1]
  /\ buf = [p \in Proc |-> None]
  /\ out = [p \in Proc |-> Nothing]
  /\ quiet = [p \in Proc |-> TRUE]
  /\ edits = 0 /\ runs = 0

-----------------------------------------------------------------------------
Running(p) == pc[p] \notin {"idle", "hit", "done"}

(* The build script calls load_or_parse with fresh values.                   *)
Start(p) ==
  /\ ~Running(p) /\ runs < MaxRuns
  /\ runs' = runs + 1
  /\ \E graph \in HeaderGraphs : conf' = [conf EXCEPT ![p] = graph]
  /\ pc' = [pc EXCEPT ![p] = "hash"]
  /\ key' = [key EXCEPT ![p] = NoKey]
  /\ at' = [at EXCEPT ![p] = 1]
  /\ buf' = [buf EXCEPT ![p] = None]
  /\ out' = [out EXCEPT ![p] = Nothing]
  /\ quiet' = [quiet EXCEPT ![p] = TRUE]
  /\ UNCHANGED <<text, file, edits>>

(* hash_headers reads one header after the other.                            *)
HashHeader(p) ==
  /\ pc[p] = "hash" /\ at[p] <= Len(Sorted)
  /\ key' = [key EXCEPT ![p].digest = Append(@, text[Sorted[at[p]]])]
  /\ at' = [at EXCEPT ![p] = @ + 1]
  /\ UNCHANGED <<text, file, pc, conf, buf, out, quiet, edits, runs>>

ComputeKey(p) ==
  /\ pc[p] = "hash" /\ at[p] > Len(Sorted)
  /\ key' = [key EXCEPT ![p] = Key(p)]
  /\ pc' = [pc EXCEPT ![p] = "read"]
  /\ UNCHANGED <<text, file, conf, at, buf, out, quiet, edits, runs>>

(* read_record reads the file in pieces: first its beginning, ...            *)
ReadFirst(p) ==
  /\ pc[p] = "read" /\ buf[p] = None /\ file[1] # None
  /\ buf' = [buf EXCEPT ![p] = file[1]]
  /\ UNCHANGED <<text, file, pc, conf, key, at, out, quiet, edits, runs>>

(* ... then the rest.  A record with the expected key is a hit.              *)
Hit(p) ==
  /\ pc[p] = "read"
  /\ Parses(buf[p], file[2]) /\ buf[p].key = key[p]
  /\ out' = [out EXCEPT ![p] = [ids |-> buf[p].ids, ctx |-> file[2].ctx,
                                anns |-> file[2].anns]]
  /\ pc' = [pc EXCEPT ![p] = "hit"]
  /\ UNCHANGED <<text, file, conf, key, at, buf, quiet, edits, runs>>

Miss(p) ==
  /\ pc[p] = "read"
  /\ \/ buf[p] = None /\ file[1] = None
     \/ buf[p] # None /\ (~Parses(buf[p], file[2]) \/ buf[p] # file[2])
     \/ buf[p] # None /\ Parses(buf[p], file[2]) /\ buf[p].key # key[p]
  /\ pc' = [pc EXCEPT ![p] = "parse"]
  /\ at' = [at EXCEPT ![p] = 1]
  /\ buf' = [buf EXCEPT ![p] = None]
  /\ UNCHANGED <<text, file, conf, key, out, quiet, edits, runs>>

(* parse_all: the classes a root defines are returned in the order of roots. *)
ParseRoot(p) ==
  /\ pc[p] = "parse" /\ at[p] <= Len(ParseRoots(p))
  /\ out' = [out EXCEPT ![p].ctx = Append(@, Parse(p, ParseRoots(p)[at[p]])),
                        ![p].ids = Append(@, Len(out[p].ctx) + 1)]
  /\ at' = [at EXCEPT ![p] = @ + 1]
  /\ UNCHANGED <<text, file, pc, conf, key, buf, quiet, edits, runs>>

ParsedAll(p) ==
  /\ pc[p] = "parse" /\ at[p] > Len(ParseRoots(p))
  /\ at' = [at EXCEPT ![p] = 1]
  /\ pc' = [pc EXCEPT ![p] = "annotate"]
  /\ UNCHANGED <<text, file, conf, key, buf, out, quiet, edits, runs>>

(* The annotation pass imports every root once more into the same ctx, each  *)
(* with a USR cache of its own; an error leaves what it had imported.        *)
Annotate(p) ==
  /\ pc[p] = "annotate" /\ at[p] <= Len(conf[p].roots)
  /\ LET again == Parse(p, conf[p].roots[at[p]])
     IN \/ out' = [out EXCEPT ![p].ctx = Append(@, again), ![p].anns = Append(@, again)]
        \/ out' = [out EXCEPT ![p].ctx = Append(@, again)]
  /\ at' = [at EXCEPT ![p] = @ + 1]
  /\ UNCHANGED <<text, file, pc, conf, key, buf, quiet, edits, runs>>

(* write_record is fs::write: the file is truncated, then the record goes to *)
(* it through a handle with an offset of its own.                            *)
Truncate(p) ==
  /\ pc[p] = "annotate" /\ at[p] > Len(conf[p].roots)
  /\ file' = NoFile
  /\ pc' = [pc EXCEPT ![p] = "write"]
  /\ at' = [at EXCEPT ![p] = 1]
  /\ UNCHANGED <<text, conf, key, buf, out, quiet, edits, runs>>

WritePart(p) ==
  /\ pc[p] = "write" /\ at[p] <= 2
  /\ file' = [file EXCEPT ![at[p]] = Record(p)]
  /\ at' = [at EXCEPT ![p] = @ + 1]
  /\ pc' = [pc EXCEPT ![p] = IF at[p] = 2 THEN "done" ELSE @]
  /\ UNCHANGED <<text, conf, key, buf, out, quiet, edits, runs>>

(* The run ends early: the build script is killed, or hash_headers,          *)
(* parse_all or write_record returns an error.  Only the file survives.      *)
Abort(p) ==
  /\ Running(p)
  /\ pc' = [pc EXCEPT ![p] = "idle"]
  /\ conf' = [conf EXCEPT ![p] = NoConf]
  /\ key' = [key EXCEPT ![p] = NoKey]
  /\ at' = [at EXCEPT ![p] = 1]
  /\ buf' = [buf EXCEPT ![p] = None]
  /\ out' = [out EXCEPT ![p] = Nothing]
  /\ quiet' = [quiet EXCEPT ![p] = TRUE]
  /\ UNCHANGED <<text, file, edits, runs>>

(* Somebody edits a header.                                                  *)
Edit(f) ==
  /\ edits < MaxEdits
  /\ \E t \in Text \ {text[f]} : text' = [text EXCEPT ![f] = t]
  /\ edits' = edits + 1
  /\ quiet' = [p \in Proc |-> pc[p] = "idle"]
  /\ UNCHANGED <<file, pc, conf, key, at, buf, out, runs>>

Next ==
  \/ \E p \in Proc : \/ Start(p) \/ HashHeader(p) \/ ComputeKey(p)
                     \/ ReadFirst(p) \/ Hit(p) \/ Miss(p)
                     \/ ParseRoot(p) \/ ParsedAll(p) \/ Annotate(p)
                     \/ Truncate(p) \/ WritePart(p) \/ Abort(p)
  \/ \E f \in File : Edit(f)

Spec == Init /\ [][Next]_vars
-----------------------------------------------------------------------------
(* The properties.                                                           *)

(* load_or_parse: a hit on the record of one run during which no header was  *)
(* edited, in a run during which none is, returns classes parsed from the    *)
(* roots as they are on disk, with the flags of this call.                   *)
HitRootsFresh ==
  \A p \in Proc :
    /\ pc[p] = "hit" /\ quiet[p] /\ buf[p].quiet
    /\ buf[p].ctx = out[p].ctx
    => \A i \in ToSet(out[p].ids) :
         /\ out[p].ctx[i].flags = conf[p].flags
         /\ \A f \in Roots \intersect DOMAIN out[p].ctx[i].text : out[p].ctx[i].text[f] = text[f]

(* load_or_parse: whatever was read, whole or pieced together, the class ids *)
(* a run returns cover each root once, in one order of the roots, with the   *)
(* classes of the synthetic root after them, and no class of the annotation  *)
(* pass.                                                                     *)
IdsCoverRoots ==
  \A p \in Proc :
    pc[p] \in {"hit", "done"} =>
      LET roots == [i \in DOMAIN out[p].ids |-> out[p].ctx[out[p].ids[i]].root]
      IN \E list \in RootLists : roots \in {list, Append(list, Synth)}

(* load_or_parse: a quiet run does not miss a whole record that a quiet run  *)
(* of the same HeaderGraph wrote, while the roots have the text they had     *)
(* then, whatever was edited, by however many runs, in between.              *)
NoNeedlessMiss ==
  [][\A p \in Proc :
       /\ pc[p] = "read" /\ pc'[p] = "parse" /\ quiet[p]
       /\ file[1] # None /\ file[1] = file[2] /\ file[1].quiet
       /\ buf[p] = file[1]
       /\ buf[p].conf = conf[p]
       => \E i \in ToSet(buf[p].ids) :
            \E f \in Roots \intersect DOMAIN buf[p].ctx[i].text : buf[p].ctx[i].text[f] # text[f]]_vars
=============================================================================
