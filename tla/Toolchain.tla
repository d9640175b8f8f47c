------------------------------ MODULE Toolchain ------------------------------
(***************************************************************************)
(* The rustcc wrapper: run_interop_phases (crates/rustcc/src/main.rs) and  *)
(* the phases it calls.                                                    *)
(*                                                                         *)
(* Cargo starts the wrapper for a crate, again after each edit, and may    *)
(* start two at a time (the library and its tests have one crate name and  *)
(* one cache directory).  A run scans the Rust sources, hashes its inputs  *)
(* into a fingerprint, compares it with the marker file of the last run    *)
(* that succeeded, emits the artefacts that are missing or out of date,    *)
(* and writes the marker last.  Files are written in place, in two steps;  *)
(* an error or a kill ends a run where it is.                              *)
(*                                                                         *)
(* A text is a version.  An artefact is the record of what it was made     *)
(* from.  Headers are those the manifest lists: what they include is not   *)
(* part of the fingerprint, and not of the model.                          *)
(***************************************************************************)
EXTENDS Naturals, FiniteSets

CONSTANTS
  Proc,       \* wrapper processes of one crate
  Hdr,        \* versions of the listed headers
  Rs,         \* versions of the Rust sources
  HasRust,    \* those of Rs that declare a #[repr(cpp)] type
  Modes,      \* emit-stubs, emit-forwarders of the manifest
  Tools,      \* versions of rustc and clang++
  Libclang,   \* the libclang feature
  NoTool,     \* the probe failed
  None,       \* no file
  Torn,       \* a file that was truncated and not yet written
  First,      \* the inputs of the first build
  MaxEdits,   \* bound on edits of the inputs
  MaxFaults   \* bound on runs that fail or are killed, and on failed probes

ASSUME ToolchainAssumption ==
  /\ HasRust \subseteq Rs /\ Modes \subseteq {"off", "stubs", "forwarders", "both"}
  /\ Libclang \in BOOLEAN /\ NoTool \notin Tools
  /\ First \in [hdr : Hdr, rs : Rs, mode : Modes, tool : Tools]
  /\ MaxEdits \in Nat /\ MaxFaults \in Nat

VARIABLES
  inputs,   \* what is on disk: headers, sources, manifest, tools
  disk,     \* the artefacts in the cache directory
  marker,   \* <crate>.fingerprint
  run,      \* the locals of each process
  edits, faults,
  clean     \* runs were quiet, alone and of one manifest, the tools were probed, and no
            \* edit went back to the inputs of the marker after a failed run (history)

vars == <<inputs, disk, marker, run, edits, faults, clean>>

-----------------------------------------------------------------------------
File == {"hpp", "stubs", "forwarders", "cpp", "obj"}
Idle == [pc |-> "idle"]

(* The fingerprints, and the texts and objects in artefacts, are no sentinel.*)
Prints == [hdr : Hdr, rs : Rs, tool : Tools]
Made == [of : {"rust", "headers"}, text : Rs \union Hdr]
Objects == [of : {"object"}, shims : Made, text : Hdr, tool : Tools]
ASSUME SentinelAssumption ==
  {None, Torn} \intersect (Prints \union Made \union Objects) = {}

Active(p) == run[p] # Idle

(* The fingerprint of the inputs as they are, and the one a run computes.    *)
Probed == [hdr |-> inputs.hdr, rs |-> inputs.rs, tool |-> inputs.tool]
Fingerprint(r) == [hdr |-> r.hashed, rs |-> r.hashedRs, tool |-> r.tool]

(* FingerprintState::inputs_changed: a truncated marker differs too.         *)
InputsChanged(r) == r.prior # Fingerprint(r)

Exists(f) == disk[f] # None
Cached(r, f) == ~InputsChanged(r) /\ Exists(f)

(* What an emitter writes: the Rust scan of this run, or the headers as      *)
(* parse_headers read them.                                                  *)
FromRust(r) == [of |-> "rust", text |-> r.scan]
FromHeaders(r) == [of |-> "headers", text |-> r.ir]

(* clang++ compiles what is in the .shims.cpp, against the headers.          *)
Object == [of |-> "object", shims |-> disk["cpp"], text |-> inputs.hdr, tool |-> inputs.tool]

-----------------------------------------------------------------------------
Init ==
  /\ inputs = First
  /\ disk = [f \in File |-> None]
  /\ marker = None
  /\ run = [p \in Proc |-> Idle]
  /\ edits = 0 /\ faults = 0 /\ clean = TRUE

At(p, phase) == Active(p) /\ run[p].pc = phase
Goto(p, phase) == run' = [run EXCEPT ![p].pc = phase]
DiskSame == UNCHANGED <<inputs, disk, marker, edits, faults, clean>>

(* load_interop: the manifest is read once, at the start.                    *)
LoadInterop(p) ==
  /\ ~Active(p)
  /\ run' = [run EXCEPT ![p] =
       [pc |-> "scan", mode |-> inputs.mode, scan |-> None, tool |-> NoTool,
        hashed |-> None, hashedRs |-> None, prior |-> None, ir |-> None, open |-> FALSE]]
  /\ clean' = (clean /\ \A q \in Proc : ~Active(q))
  /\ UNCHANGED <<inputs, disk, marker, edits, faults>>

(* scan_rust_sources: the bodies the emitters will use.                      *)
ScanRust(p) ==
  /\ At(p, "scan")
  /\ run' = [run EXCEPT ![p].scan = inputs.rs, ![p].pc = "probe"]
  /\ DiskSame

(* toolchain::detect: an error is not fatal.                                 *)
Probe(p) ==
  /\ At(p, "probe")
  /\ \/ /\ run' = [run EXCEPT ![p].tool = inputs.tool, ![p].pc = "hash"]
        /\ UNCHANGED faults
        /\ UNCHANGED clean
     \/ /\ faults < MaxFaults /\ faults' = faults + 1
        /\ run' = [run EXCEPT ![p].pc = "hash"]
        /\ clean' = FALSE
  /\ UNCHANGED <<inputs, disk, marker, edits>>

(* The headers and the scanned files are read, the files a second time, and  *)
(* the marker.                                                               *)
BuildFingerprintEarlyBug(p) ==
  /\ At(p, "hash")
  /\ run' = [run EXCEPT ![p].hashed = inputs.hdr, ![p].hashedRs = inputs.rs,
                        ![p].prior = marker, ![p].pc = "rustHpp"]
  /\ marker' = Probed
  /\ UNCHANGED <<inputs, disk, edits, faults, clean>>
BuildFingerprint(p) ==
  /\ At(p, "hash")
  /\ run' = [run EXCEPT ![p].hashed = inputs.hdr, ![p].hashedRs = inputs.rs,
                        ![p].prior = marker, ![p].pc = "rustHpp"]
  /\ DiskSame

-----------------------------------------------------------------------------
(* An emitter of a file: leave it, or truncate it and then write it.         *)
Skip(p, phase, next, unneeded) ==
  /\ At(p, phase) /\ ~run[p].open /\ unneeded
  /\ Goto(p, next)
  /\ DiskSame

Truncate(p, phase, f, unneeded) ==
  /\ At(p, phase) /\ ~run[p].open /\ ~unneeded
  /\ run' = [run EXCEPT ![p].open = TRUE]
  /\ disk' = [disk EXCEPT ![f] = Torn]
  /\ UNCHANGED <<inputs, marker, edits, faults, clean>>

Write(p, phase, next, f, body) ==
  /\ At(p, phase) /\ run[p].open
  /\ run' = [run EXCEPT ![p].open = FALSE, ![p].pc = next]
  /\ disk' = [disk EXCEPT ![f] = body]
  /\ UNCHANGED <<inputs, marker, edits, faults, clean>>

Emit(p, phase, next, f, body, unneeded) ==
  \/ Skip(p, phase, next, unneeded)
  \/ Truncate(p, phase, f, unneeded)
  \/ Write(p, phase, next, f, body)

NoRust(r) == r.scan \notin HasRust

EmitRustHpp(p) ==
  Active(p) /\ Emit(p, "rustHpp", "stubs", "hpp", FromRust(run[p]),
                    NoRust(run[p]) \/ Cached(run[p], "hpp"))

(* Forwarders win over stubs.                                                *)
EmitStubs(p) ==
  Active(p) /\ Emit(p, "stubs", "forwarders", "stubs", FromRust(run[p]),
                    \/ run[p].mode # "stubs"
                    \/ NoRust(run[p])
                    \/ Cached(run[p], "stubs"))

EmitForwarders(p) ==
  Active(p) /\ Emit(p, "forwarders", "parse", "forwarders", FromRust(run[p]),
                    \/ run[p].mode \notin {"forwarders", "both"}
                    \/ NoRust(run[p])
                    \/ Cached(run[p], "forwarders"))

(* parse_headers runs also when nothing changed; without libclang the three  *)
(* phases after it are left out.                                             *)
ParseHeaders(p) ==
  /\ At(p, "parse")
  /\ run' = [run EXCEPT ![p].ir = IF Libclang THEN inputs.hdr ELSE None,
                        ![p].pc = IF Libclang THEN "shims" ELSE "commit"]
  /\ DiskSame

(* emit_and_compile: both files are there, or both are made.                 *)
ShimsCached(r) == Cached(r, "cpp") /\ Cached(r, "obj")

EmitShims(p) ==
  Active(p) /\ \/ Skip(p, "shims", "hpp", ShimsCached(run[p]))
               \/ Truncate(p, "shims", "cpp", ShimsCached(run[p]))
               \/ Write(p, "shims", "compile", "cpp", FromHeaders(run[p]))

Compile(p) ==
  /\ At(p, "compile")
  /\ disk' = [disk EXCEPT !["obj"] = Object]
  /\ Goto(p, "hpp")
  /\ UNCHANGED <<inputs, marker, edits, faults, clean>>

EmitHpp(p) ==
  Active(p) /\ Emit(p, "hpp", "commit", "hpp", FromHeaders(run[p]), Cached(run[p], "hpp"))

(* commit_fingerprint, also when nothing changed; then rustc is executed.    *)
OpenMarker(p) ==
  /\ At(p, "commit") /\ ~run[p].open
  /\ run' = [run EXCEPT ![p].open = TRUE]
  /\ marker' = Torn
  /\ UNCHANGED <<inputs, disk, edits, faults, clean>>

CommitPriorBug(p) ==
  /\ At(p, "commit") /\ run[p].open
  /\ marker' = IF run[p].prior = None THEN Fingerprint(run[p]) ELSE run[p].prior
  /\ run' = [run EXCEPT ![p] = Idle]
  /\ UNCHANGED <<inputs, disk, edits, faults, clean>>
Commit(p) ==
  /\ At(p, "commit") /\ run[p].open
  /\ marker' = Fingerprint(run[p])
  /\ run' = [run EXCEPT ![p] = Idle]
  /\ UNCHANGED <<inputs, disk, edits, faults, clean>>

(* The error of any phase, or a kill: only the files remain.                 *)
Abort(p) ==
  /\ Active(p) /\ faults < MaxFaults
  /\ faults' = faults + 1
  /\ run' = [run EXCEPT ![p] = Idle]
  /\ UNCHANGED <<inputs, disk, marker, edits, clean>>

(* The user edits a header, a source or the manifest, or upgrades a tool.    *)
Edit ==
  /\ edits < MaxEdits /\ edits' = edits + 1
  /\ \/ \E h \in Hdr \ {inputs.hdr} : inputs' = [inputs EXCEPT !.hdr = h]
     \/ \E s \in Rs \ {inputs.rs} : inputs' = [inputs EXCEPT !.rs = s]
     \/ \E m \in Modes \ {inputs.mode} : inputs' = [inputs EXCEPT !.mode = m]
     \/ \E t \in Tools \ {inputs.tool} : inputs' = [inputs EXCEPT !.tool = t]
  /\ clean' = /\ clean /\ (\A p \in Proc : ~Active(p)) /\ inputs'.mode = inputs.mode
              /\ faults = 0 \/ marker # Probed'
  /\ UNCHANGED <<disk, marker, run, faults>>

Step(p) ==
  \/ LoadInterop(p) \/ ScanRust(p) \/ Probe(p) \/ BuildFingerprint(p)
  \/ EmitRustHpp(p) \/ EmitStubs(p) \/ EmitForwarders(p)
  \/ ParseHeaders(p) \/ EmitShims(p) \/ Compile(p) \/ EmitHpp(p)
  \/ OpenMarker(p) \/ Commit(p)

Next == Edit \/ \E p \in Proc : Step(p) \/ Abort(p)

Spec == Init /\ [][Next]_vars

(* A started process runs on, and the user builds again.                     *)
FairSpec == Spec /\ \A p \in Proc : WF_vars(Step(p))
-----------------------------------------------------------------------------
(* The properties.                                                           *)

(* Which files a build with a fingerprint needs, and that one is what its    *)
(* inputs give.  An unprobed tool is not in the fingerprint.                 *)
Needed(fp, mode) ==
  (IF Libclang THEN {"cpp", "obj", "hpp"} ELSE {})
    \union IF fp.rs \notin HasRust THEN {}
           ELSE {"hpp"} \union CASE mode = "stubs" -> {"stubs"}
                                 [] mode \in {"forwarders", "both"} -> {"forwarders"}
                                 [] OTHER -> {}

RustText(fp) == [of |-> "rust", text |-> fp.rs]
HeaderText(fp) == [of |-> "headers", text |-> fp.hdr]

Current(f, fp) ==
  CASE f \in {"stubs", "forwarders"} -> disk[f] = RustText(fp)
    [] f = "hpp" -> disk[f] = IF Libclang THEN HeaderText(fp) ELSE RustText(fp)
    [] f = "cpp" -> disk[f] = HeaderText(fp)
    [] f = "obj" -> \E t \in Tools :
         /\ fp.tool \in {t, NoTool}
         /\ disk[f] = [of |-> "object", shims |-> HeaderText(fp), text |-> fp.hdr, tool |-> t]

AllCurrent(fp, mode) == \A f \in Needed(fp, mode) : Current(f, fp)
AllIdle == \A p \in Proc : ~Active(p)

(* run_interop_phases, incremental builds: as long as every run was alone    *)
(* and saw no edit, and the manifest stayed, a marker that matches the       *)
(* inputs means that all artefacts do: the next run may keep them, whichever *)
(* runs were killed and wherever.                                            *)
IncrementalSound ==
  clean /\ AllIdle /\ marker = Probed => AllCurrent(Probed, inputs.mode)

(* Once edits and faults have ended, the tools can be probed, no run is      *)
(* under way and the marker is of other inputs, the builds that follow, two  *)
(* at a time, get to a state with the marker and all artefacts current.      *)
Settled ==
  /\ edits = MaxEdits /\ faults = MaxFaults
  /\ AllIdle /\ marker # Probed

UpToDate == marker = Probed /\ AllCurrent(Probed, inputs.mode)

BuildsConverge == Settled ~> UpToDate
=============================================================================
