--------------------------- MODULE ToolchainProofs ---------------------------
(***************************************************************************)
(* Proofs about the rustcc wrapper: a marker that matches the inputs means *)
(* that the artefacts do.                                                  *)
(***************************************************************************)
EXTENDS Toolchain, TLAPS

Hashed == {"rustHpp", "stubs", "forwarders", "parse", "shims", "compile", "hpp", "commit"}
Phases == {"scan", "probe", "hash"} \union Hashed
Marks == [hdr : Hdr \union {None}, rs : Rs \union {None}, tool : Tools \union {NoTool}]
           \union {None, Torn}
Locals ==
  [pc : Phases, mode : Modes, scan : Rs \union {None}, tool : Tools \union {NoTool},
   hashed : Hdr \union {None}, hashedRs : Rs \union {None}, prior : Marks,
   ir : Hdr \union {None}, open : BOOLEAN]

Shape ==
  /\ inputs \in [hdr : Hdr, rs : Rs, mode : Modes, tool : Tools]
  /\ disk = [f \in File |-> disk[f]]
  /\ marker \in Marks
  /\ run \in [Proc -> Locals \union {Idle}]
  /\ faults \in Nat /\ clean \in BOOLEAN

(* What a clean run knows is what is on disk.                                *)
ReadOK(r) ==
  /\ r.mode = inputs.mode
  /\ r.pc # "scan" => r.scan = inputs.rs
  /\ r.pc \notin {"scan", "probe"} => r.tool = inputs.tool
  /\ r.pc \in Hashed => r.hashed = inputs.hdr /\ r.hashedRs = inputs.rs
  /\ r.pc \in Hashed => marker = IF r.pc = "commit" /\ r.open THEN Torn ELSE r.prior
  /\ r.pc \in {"shims", "compile", "hpp"} => Libclang /\ r.ir = inputs.hdr
  /\ r.open => r.pc \in {"rustHpp", "stubs", "forwarders", "shims", "hpp", "commit"}
  /\ (r.open /\ r.pc # "commit") \/ r.pc = "compile" => InputsChanged(r)

(* The phases that follow the last emitter of a file.                        *)
Past(f) ==
  CASE f = "hpp" -> IF Libclang THEN {"commit"} ELSE {"stubs", "forwarders", "parse", "commit"}
    [] f = "stubs" -> Hashed \ {"rustHpp", "stubs"}
    [] f = "forwarders" -> Hashed \ {"rustHpp", "stubs", "forwarders"}
    [] f = "cpp" -> {"compile", "hpp", "commit"}
    [] OTHER -> {"hpp", "commit"}

(* A run over changed inputs has made the files it is past; a run over the   *)
(* inputs of the marker finds all of them, and leaves them.                  *)
FilesOK(r) ==
  r.pc \in Hashed => \A f \in Needed(Probed, inputs.mode) :
    r.pc \in Past(f) \/ ~InputsChanged(r) => Current(f, Probed)

Sound == marker = Probed => AllCurrent(Probed, inputs.mode)

(* As long as no run was ended early, the marker is that of a whole build.   *)
Whole ==
  faults = 0 /\ marker # None /\ (\A p \in Proc : run[p].pc \notin Hashed) =>
    marker \in Prints /\ AllCurrent(marker, inputs.mode)

Clean ==
  /\ \A p, q \in Proc : Active(p) /\ Active(q) => p = q
  /\ \A p \in Proc : Active(p) => ReadOK(run[p]) /\ FilesOK(run[p])
  /\ Sound
  /\ Whole

IInv == Shape /\ (clean => Clean)

-----------------------------------------------------------------------------
USE SentinelAssumption, ToolchainAssumption

LEMMA CurrentKept ==
  ASSUME NEW f \in File, NEW fp, disk'[f] = disk[f]
  PROVE  Current(f, fp)' <=> Current(f, fp)
BY DEF Current

LEMMA NeededFiles ==
  ASSUME NEW fp, NEW mode
  PROVE  Needed(fp, mode) \subseteq File
BY DEF Needed, File

LEMMA IdleIs ==
  ASSUME Shape, NEW p \in Proc
  PROVE  /\ Active(p) => run[p] \in Locals
         /\ run[p].pc \in Phases => Active(p)
         /\ ~Active(p) => run[p].pc \notin Hashed
BY DEF Shape, Active, Idle, Phases, Hashed

(* What a run knows, when it moves on.                                       *)
SameKnown(r, s) ==
  /\ s.mode = r.mode /\ s.scan = r.scan /\ s.tool = r.tool
  /\ s.hashed = r.hashed /\ s.hashedRs = r.hashedRs /\ s.prior = r.prior

LEMMA Moved ==
  ASSUME NEW r \in Locals, NEW s, NEW next \in Phases, s = [r EXCEPT !.open = FALSE, !.pc = next]
  PROVE  /\ s \in Locals /\ s.pc = next /\ ~s.open /\ s.ir = r.ir
         /\ SameKnown(r, s)
         /\ InputsChanged(r) <=> InputsChanged(s)
<1>1. s \in Locals /\ s.pc = next /\ ~s.open /\ s.ir = r.ir
  BY DEF Locals
<1>2. SameKnown(r, s)
  BY DEF Locals, SameKnown
<1> QED BY <1>1, <1>2 DEF InputsChanged, Fingerprint, SameKnown

(* Clean depends on the disk file by file.                                   *)
LEMMA AllCurrentKept ==
  ASSUME NEW fp, NEW mode, \A f \in File : disk'[f] = disk[f]
  PROVE  AllCurrent(fp, mode)' <=> AllCurrent(fp, mode)
<1>1. \A f \in Needed(fp, mode) : Current(f, fp)' <=> Current(f, fp)
  BY CurrentKept, NeededFiles
<1> QED BY <1>1 DEF AllCurrent, Needed

(* A run goes on: of a clean one, what it knows and has made is to be shown. *)
LEMMA RunStep ==
  ASSUME IInv, NEW p \in Proc, Active(p), run'[p] \in Locals, run' = [run EXCEPT ![p] = run'[p]],
         disk' = [f \in File |-> disk'[f]],
         inputs' = inputs, marker' = marker, faults' = faults, clean' = clean,
         clean => (ReadOK(run[p]) /\ FilesOK(run[p]))',
         \/ run'[p].pc \in Hashed /\ ~(run'[p].pc = "commit" /\ run'[p].open)
         \/ disk' = disk /\ run[p].pc \notin Hashed
  PROVE  IInv'
<1>1. Shape'
  BY DEF IInv, Shape
<1>2. Probed' = Probed
  BY DEF Probed
<1> SUFFICES ASSUME clean PROVE Clean'
  BY <1>1 DEF IInv
<1>3. Clean /\ Shape
  BY DEF IInv
<1>4. run'[p].pc \in Phases /\ (\A q \in Proc : q # p => run'[q] = run[q] /\ ~Active(q))
  BY <1>3 DEF Clean, Shape, Locals
<1>5. \A q \in Proc : Active(q)' => q = p
  BY <1>4 DEF Active
<1>6. Sound'
  <2>1. CASE run'[p].pc \in Hashed /\ ~(run'[p].pc = "commit" /\ run'[p].open)
    <3> SUFFICES ASSUME marker' = Probed' PROVE AllCurrent(Probed, inputs.mode)'
      BY DEF Sound
    <3>1. run'[p].prior = Probed'
      BY <2>1 DEF ReadOK
    <3>2. Fingerprint(run'[p]) = Probed'
      BY <2>1 DEF ReadOK, Fingerprint, Probed, Hashed
    <3>3. \A f \in Needed(Probed, inputs.mode)' : Current(f, Probed)'
      BY <2>1, <3>1, <3>2 DEF FilesOK, InputsChanged
    <3> QED BY <3>3 DEF AllCurrent
  <2>2. CASE disk' = disk
    <3>1. AllCurrent(Probed, inputs.mode)' <=> AllCurrent(Probed, inputs.mode)
      BY <2>2 DEF AllCurrent, Current, Needed, Probed
    <3> QED BY <1>2, <1>3, <3>1 DEF Clean, Sound
  <2> QED BY <2>1, <2>2
<1>7. Whole'
  <2>1. CASE run'[p].pc \in Hashed
    BY <2>1 DEF Whole
  <2>2. CASE disk' = disk /\ run[p].pc \notin Hashed
    <3>1. (\A q \in Proc : run'[q].pc \notin Hashed) => \A q \in Proc : run[q].pc \notin Hashed
      BY <1>4, <2>2
    <3>2. AllCurrent(marker, inputs.mode)' <=> AllCurrent(marker, inputs.mode)
      BY <2>2 DEF AllCurrent, Current, Needed
    <3> QED BY <1>3, <3>1, <3>2 DEF Clean, Whole
  <2> QED BY <2>1, <2>2
<1> QED BY <1>5, <1>6, <1>7 DEF Clean

-----------------------------------------------------------------------------
(* The three things an emitter does.                                         *)
LEMMA SkipKeeps ==
  ASSUME IInv, NEW p \in Proc, NEW phase \in Hashed \ {"commit"}, NEW unneeded,
         NEW next \in Hashed \ {"compile"}, Skip(p, phase, next, unneeded),
         next \in {"shims", "compile", "hpp"} => phase \in {"shims", "compile", "hpp"},
         clean => \A g \in Needed(Probed, inputs.mode) :
           next \in Past(g) /\ InputsChanged(run[p]) => phase \in Past(g)
  PROVE  IInv'
<1>1. /\ Active(p) /\ run[p].pc = phase /\ ~run[p].open
      /\ run' = [run EXCEPT ![p].pc = next] /\ run \in [Proc -> Locals \union {Idle}]
  BY DEF Skip, At, Goto, IInv, Shape
<1>2. /\ inputs' = inputs /\ marker' = marker /\ faults' = faults /\ clean' = clean /\ disk' = disk
      /\ disk = [f \in File |-> disk[f]]
  BY DEF Skip, DiskSame, IInv, Shape
<1>3. /\ run[p] \in Locals
      /\ run'[p] = [run[p] EXCEPT !.pc = next] /\ run' = [run EXCEPT ![p] = run'[p]]
  BY <1>1, IdleIs DEF IInv
<1>4. run'[p] \in Locals /\ run'[p].pc = next /\ ~run'[p].open
  BY <1>1, <1>3 DEF Locals, Phases
<1>5. ASSUME clean PROVE (ReadOK(run[p]) /\ FilesOK(run[p]))'
  <2>1. ReadOK(run[p]) /\ FilesOK(run[p])
    BY <1>1, <1>5 DEF IInv, Clean
  <2>2. ReadOK(run[p])'
    BY <1>1, <1>2, <1>3, <2>1 DEF ReadOK, Locals, Hashed
  <2>3. (\A f : Current(f, Probed)' <=> Current(f, Probed)) /\ Probed' = Probed
    BY <1>2 DEF Current, Probed
  <2>4. InputsChanged(run'[p]) <=> InputsChanged(run[p])
    BY <1>3 DEF InputsChanged, Fingerprint, Locals
  <2>5. FilesOK(run[p])'
    BY <1>1, <1>2, <1>4, <1>5, <2>1, <2>3, <2>4 DEF FilesOK, Needed
  <2> QED BY <2>2, <2>5
<1> QED BY <1>1, <1>2, <1>3, <1>4, <1>5, RunStep

LEMMA TruncateKeeps ==
  ASSUME IInv, NEW p \in Proc, NEW phase \in {"rustHpp", "stubs", "forwarders", "shims", "hpp"},
         NEW f \in File, NEW unneeded, Truncate(p, phase, f, unneeded), phase \notin Past(f),
         clean /\ ~unneeded => InputsChanged(run[p])
  PROVE  IInv'
<1>1. /\ Active(p) /\ run[p].pc = phase /\ ~run[p].open /\ ~unneeded
      /\ run' = [run EXCEPT ![p].open = TRUE] /\ run \in [Proc -> Locals \union {Idle}]
      /\ phase \in Hashed /\ phase # "commit"
  BY DEF Truncate, At, Goto, IInv, Shape, Hashed
<1>2. /\ inputs' = inputs /\ marker' = marker /\ faults' = faults /\ clean' = clean
      /\ disk' = [disk EXCEPT ![f] = Torn] /\ disk = [g \in File |-> disk[g]]
  BY DEF Truncate, IInv, Shape
<1>3. /\ run[p] \in Locals
      /\ run'[p] = [run[p] EXCEPT !.open = TRUE] /\ run' = [run EXCEPT ![p] = run'[p]]
  BY <1>1, IdleIs DEF IInv
<1>4. run'[p] \in Locals /\ run'[p].pc = phase /\ disk' = [g \in File |-> disk'[g]]
  BY <1>1, <1>2, <1>3 DEF Locals
<1>5. ASSUME clean PROVE (ReadOK(run[p]) /\ FilesOK(run[p]))'
  <2>1. ReadOK(run[p]) /\ FilesOK(run[p]) /\ InputsChanged(run[p])
    BY <1>1, <1>5 DEF IInv, Clean
  <2>2. InputsChanged(run'[p])
    BY <1>3, <2>1 DEF InputsChanged, Fingerprint, Locals
  <2>3. ReadOK(run[p])'
    BY <1>1, <1>2, <1>3, <2>1, <2>2 DEF ReadOK, Locals, InputsChanged
  <2>4. \A g \in File : phase \in Past(g) => (Current(g, Probed)' <=> Current(g, Probed))
    <3> SUFFICES ASSUME NEW g \in File, phase \in Past(g)
                 PROVE  Current(g, Probed)' <=> Current(g, Probed)
      OBVIOUS
    <3>1. disk'[g] = disk[g] /\ Probed' = Probed
      BY <1>2 DEF Probed
    <3> QED BY <3>1 DEF Current
  <2>5. ASSUME NEW g \in Needed(Probed, inputs.mode), phase \in Past(g)
        PROVE  Current(g, Probed)'
    BY <1>1, <2>1, <2>4, <2>5, NeededFiles DEF FilesOK
  <2>6. run'[p].pc = phase /\ Needed(Probed, inputs.mode)' = Needed(Probed, inputs.mode)
    BY <1>2, <1>4 DEF Needed, Probed
  <2>7. FilesOK(run[p])'
    BY <2>2, <2>5, <2>6 DEF FilesOK
  <2> QED BY <2>3, <2>7
<1> QED BY <1>1, <1>2, <1>3, <1>4, <1>5, RunStep

(* Also the compiler, which writes its file in one step.                     *)
LEMMA WriteKeeps ==
  ASSUME IInv, NEW p \in Proc, NEW phase \in Hashed \ {"commit"}, NEW next \in Hashed,
         NEW f \in File, At(p, phase), disk' = [disk EXCEPT ![f] = disk'[f]],
         run' = [run EXCEPT ![p].open = FALSE, ![p].pc = next],
         UNCHANGED <<inputs, marker, edits, faults, clean>>,
         clean => InputsChanged(run[p]), phase \notin Past(f),
         next \in {"shims", "compile", "hpp"} => phase \in {"shims", "compile", "hpp"},
         \A g \in File \ {f} : next \in Past(g) => phase \in Past(g),
         clean /\ f \in Needed(Probed, inputs.mode) /\ next \in Past(f) => Current(f, Probed)'
  PROVE  IInv'
<1>1. /\ Active(p) /\ run[p].pc = phase /\ run \in [Proc -> Locals \union {Idle}]
  BY DEF At, IInv, Shape
<1>2. disk = [g \in File |-> disk[g]]
  BY DEF IInv, Shape
<1>3. /\ run[p] \in Locals
      /\ run'[p] = [run[p] EXCEPT !.open = FALSE, !.pc = next]
      /\ run' = [run EXCEPT ![p] = run'[p]]
  BY <1>1, IdleIs DEF IInv
<1>4. run'[p] \in Locals /\ run'[p].pc = next /\ ~run'[p].open /\ disk' = [g \in File |-> disk'[g]]
  BY <1>1, <1>2, <1>3 DEF Locals, Phases
<1>5. ASSUME clean PROVE (ReadOK(run[p]) /\ FilesOK(run[p]))'
  <2>1. ReadOK(run[p]) /\ FilesOK(run[p]) /\ InputsChanged(run[p])
    BY <1>1, <1>5 DEF IInv, Clean
  <2>2. InputsChanged(run'[p]) /\ SameKnown(run[p], run'[p]) /\ run'[p].ir = run[p].ir
    BY <1>3, <2>1, Moved DEF Phases
  <2>3. ReadOK(run[p])'
    BY <1>1, <1>4, <2>1, <2>2 DEF ReadOK, SameKnown, Hashed
  <2>4. \A g \in File \ {f} : next \in Past(g) => (Current(g, Probed)' <=> Current(g, Probed))
    <3> SUFFICES ASSUME NEW g \in File \ {f}
                 PROVE  Current(g, Probed)' <=> Current(g, Probed)
      OBVIOUS
    <3>1. disk'[g] = disk[g] /\ Probed' = Probed
      BY <1>2 DEF Probed
    <3> QED BY <3>1 DEF Current
  <2>5. ASSUME NEW g \in Needed(Probed, inputs.mode), next \in Past(g)
        PROVE  Current(g, Probed)'
    <3>1. CASE g = f
      BY <1>5, <2>5, <3>1
    <3>2. CASE g # f
      BY <1>1, <2>1, <2>4, <2>5, <3>2, NeededFiles DEF FilesOK
    <3> QED BY <3>1, <3>2
  <2>6. FilesOK(run[p])'
    BY <1>4, <2>2, <2>5 DEF FilesOK, Needed, Probed
  <2> QED BY <2>3, <2>6
<1> QED BY <1>1, <1>3, <1>4, <1>5, RunStep

-----------------------------------------------------------------------------
(* What an emitter of a clean run finds.                                     *)
LEMMA Knows ==
  ASSUME IInv, clean, NEW p \in Proc, Active(p)
  PROVE  ReadOK(run[p]) /\ FilesOK(run[p])
BY DEF IInv, Clean

LEMMA CurrentExists ==
  ASSUME IInv, NEW f \in File, Current(f, Probed)
  PROVE  Exists(f)
<1>1. inputs.hdr \in Hdr /\ inputs.rs \in Rs /\ inputs.tool \in Tools
  BY DEF IInv, Shape
<1>2. RustText(Probed) \in Made /\ HeaderText(Probed) \in Made /\ Probed.hdr = inputs.hdr
  BY <1>1 DEF RustText, HeaderText, Probed, Made
<1>3. \A t \in Tools : [of |-> "object", shims |-> HeaderText(Probed), text |-> inputs.hdr, tool |-> t] \in Objects
  BY <1>1, <1>2 DEF Objects
<1>4. None \notin Made /\ None \notin Objects
  OBVIOUS
<1>5. disk[f] \in Made \union Objects
  <2>1. CASE f = "obj"
    BY <1>2, <1>3, <2>1 DEF Current
  <2>2. CASE f # "obj"
    BY <1>2, <2>2 DEF Current, File
  <2> QED BY <2>1, <2>2
<1> QED BY <1>4, <1>5 DEF Exists

LEMMA Kept ==
  ASSUME IInv, clean, NEW p \in Proc, Active(p), run[p].pc \in Hashed,
         NEW f \in Needed(Probed, inputs.mode), ~InputsChanged(run[p])
  PROVE  Cached(run[p], f)
BY Knows, CurrentExists, NeededFiles DEF FilesOK, Cached

(* The emitters of the Rust side.                                            *)
LEMMA EmitKeeps ==
  ASSUME IInv, NEW p \in Proc, NEW phase \in {"rustHpp", "stubs", "forwarders", "hpp"},
         NEW next \in Hashed \ {"compile"}, NEW f \in File, NEW body, NEW other, Active(p),
         Emit(p, phase, next, f, body, other \/ Cached(run[p], f)),
         phase \notin Past(f), next \in {"shims", "compile", "hpp"} => phase = "hpp",
         \A g \in File \ {f} : next \in Past(g) => phase \in Past(g),
         clean => (~other => f \in Needed(Probed, inputs.mode)),
         clean /\ f \in Needed(Probed, inputs.mode) /\ next \in Past(f) => ~other,
         clean /\ f \in Needed(Probed, inputs.mode) /\ next \in Past(f) /\ disk'[f] = body
           => Current(f, Probed)'
  PROVE  IInv'
<1>1. phase \in Hashed \ {"commit"} /\ phase \in {"rustHpp", "stubs", "forwarders", "shims", "hpp"}
  BY DEF Hashed
<1>2. CASE Skip(p, phase, next, other \/ Cached(run[p], f))
  <2>1. \A g \in Needed(Probed, inputs.mode) :
          clean /\ next \in Past(g) /\ InputsChanged(run[p]) => phase \in Past(g)
    BY <1>2, NeededFiles DEF Skip, Cached
  <2>2. next \in {"shims", "compile", "hpp"} => phase \in {"shims", "compile", "hpp"}
    OBVIOUS
  <2> QED BY <1>1, <1>2, <2>1, <2>2, SkipKeeps
<1>3. CASE Truncate(p, phase, f, other \/ Cached(run[p], f))
  <2>1. clean => InputsChanged(run[p])
    BY <1>1, <1>3, Kept DEF Truncate, At
  <2> QED BY <1>1, <1>3, <2>1, TruncateKeeps
<1>4. CASE Write(p, phase, next, f, body)
  <2>1. /\ At(p, phase) /\ disk' = [disk EXCEPT ![f] = body] /\ run[p].open
        /\ run' = [run EXCEPT ![p].open = FALSE, ![p].pc = next]
        /\ UNCHANGED <<inputs, marker, edits, faults, clean>>
    BY <1>4 DEF Write
  <2>2. disk'[f] = body
    BY <2>1 DEF IInv, Shape
  <2>3. disk' = [disk EXCEPT ![f] = disk'[f]]
    BY <2>1, <2>2
  <2>4. clean => InputsChanged(run[p])
    BY <1>1, <2>1, Knows DEF ReadOK, At
  <2>5. next \in {"shims", "compile", "hpp"} => phase \in {"shims", "compile", "hpp"}
    OBVIOUS
  <2> QED BY <1>1, <2>1, <2>2, <2>3, <2>4, <2>5, WriteKeeps
<1> QED BY <1>2, <1>3, <1>4 DEF Emit

-----------------------------------------------------------------------------
(* The phases, one by one.                                                   *)
LEMMA EmitterKnows ==
  ASSUME IInv, clean, NEW p \in Proc, Active(p), run[p].pc \in Hashed
  PROVE  /\ FromRust(run[p]) = RustText(Probed)
         /\ NoRust(run[p]) <=> Probed.rs \notin HasRust
         /\ run[p].mode = inputs.mode
  BY Knows DEF ReadOK, FromRust, RustText, Probed, NoRust, Hashed

LEMMA RustHppKeeps ==
  ASSUME IInv, NEW p \in Proc, EmitRustHpp(p), At(p, "rustHpp")
  PROVE  IInv'
<1>1. /\ Active(p) /\ run[p].pc = "rustHpp" /\ run[p].pc \in Hashed
      /\ Emit(p, "rustHpp", "stubs", "hpp", FromRust(run[p]), NoRust(run[p]) \/ Cached(run[p], "hpp"))
  BY DEF EmitRustHpp, At, Hashed
<1>2. /\ "rustHpp" \notin Past("hpp")
      /\ "stubs" \in Past("hpp") => ~Libclang
      /\ \A g \in File \ {"hpp"} : "stubs" \notin Past(g)
  BY DEF Past, File, Hashed
<1>3. clean => /\ FromRust(run[p]) = RustText(Probed)
               /\ NoRust(run[p]) <=> Probed.rs \notin HasRust
  BY <1>1, EmitterKnows
<1>4. clean => (~NoRust(run[p]) => "hpp" \in Needed(Probed, inputs.mode))
  BY <1>3 DEF Needed
<1>5. ~Libclang /\ "hpp" \in Needed(Probed, inputs.mode) => Probed.rs \in HasRust
  BY DEF Needed
<1>6. Probed' = Probed
  BY <1>1 DEF Emit, Skip, Truncate, Write, DiskSame, Probed
<1>7. clean /\ ~Libclang /\ disk'["hpp"] = FromRust(run[p]) => Current("hpp", Probed)'
  BY <1>3, <1>6 DEF Current, RustText
<1>8. clean /\ "hpp" \in Needed(Probed, inputs.mode) /\ "stubs" \in Past("hpp") => ~NoRust(run[p])
  BY <1>2, <1>3, <1>5
<1>9. clean /\ "stubs" \in Past("hpp") /\ disk'["hpp"] = FromRust(run[p]) => Current("hpp", Probed)'
  BY <1>2, <1>7
<1>10. "hpp" \in File /\ "stubs" \in Hashed
  BY DEF File, Hashed
<1> QED BY <1>1, <1>2, <1>4, <1>8, <1>9, <1>10, EmitKeeps

LEMMA StubsKeeps ==
  ASSUME IInv, NEW p \in Proc, EmitStubs(p), At(p, "stubs")
  PROVE  IInv'
<1> DEFINE other == run[p].mode # "stubs" \/ NoRust(run[p])
<1>1. /\ Active(p) /\ run[p].pc = "stubs" /\ run[p].pc \in Hashed
      /\ Emit(p, "stubs", "forwarders", "stubs", FromRust(run[p]), other \/ Cached(run[p], "stubs"))
  BY DEF EmitStubs, At, Hashed
<1>2. /\ "stubs" \notin Past("stubs")
      /\ \A g \in File \ {"stubs"} : "forwarders" \in Past(g) => "stubs" \in Past(g)
  BY DEF Past, File, Hashed
<1>3. clean => /\ FromRust(run[p]) = RustText(Probed)
               /\ other <=> inputs.mode # "stubs" \/ Probed.rs \notin HasRust
  BY <1>1, EmitterKnows
<1> HIDE DEF other
<1>4. "stubs" \in Needed(Probed, inputs.mode) <=> inputs.mode = "stubs" /\ Probed.rs \in HasRust
  BY DEF Needed
<1>5. Probed' = Probed
  BY <1>1 DEF Emit, Skip, Truncate, Write, DiskSame, Probed
<1>6. clean /\ disk'["stubs"] = FromRust(run[p]) => Current("stubs", Probed)'
  BY <1>3, <1>5 DEF Current, RustText
<1>7. "stubs" \in File /\ "forwarders" \in Hashed
  BY DEF File, Hashed
<1>8. "forwarders" \notin {"shims", "compile", "hpp"}
  OBVIOUS
<1> QED BY <1>1, <1>2, <1>3, <1>4, <1>6, <1>7, <1>8, EmitKeeps

LEMMA ForwardersKeeps ==
  ASSUME IInv, NEW p \in Proc, EmitForwarders(p), At(p, "forwarders")
  PROVE  IInv'
<1> DEFINE other == run[p].mode \notin {"forwarders", "both"} \/ NoRust(run[p])
<1>1. /\ Active(p) /\ run[p].pc = "forwarders" /\ run[p].pc \in Hashed
      /\ Emit(p, "forwarders", "parse", "forwarders", FromRust(run[p]),
              other \/ Cached(run[p], "forwarders"))
  BY DEF EmitForwarders, At, Hashed
<1>2. /\ "forwarders" \notin Past("forwarders")
      /\ \A g \in File \ {"forwarders"} : "parse" \in Past(g) => "forwarders" \in Past(g)
  BY DEF Past, File, Hashed
<1>3. clean => /\ FromRust(run[p]) = RustText(Probed)
               /\ other <=> inputs.mode \notin {"forwarders", "both"} \/ Probed.rs \notin HasRust
  BY <1>1, EmitterKnows
<1> HIDE DEF other
<1>4. "forwarders" \in Needed(Probed, inputs.mode)
        <=> inputs.mode \in {"forwarders", "both"} /\ Probed.rs \in HasRust
  BY DEF Needed
<1>5. Probed' = Probed
  BY <1>1 DEF Emit, Skip, Truncate, Write, DiskSame, Probed
<1>6. clean /\ disk'["forwarders"] = FromRust(run[p]) => Current("forwarders", Probed)'
  BY <1>3, <1>5 DEF Current, RustText
<1>7. "forwarders" \in File /\ "parse" \in Hashed
  BY DEF File, Hashed
<1>8. "parse" \notin {"shims", "compile", "hpp"}
  OBVIOUS
<1> QED BY <1>1, <1>2, <1>3, <1>4, <1>6, <1>7, <1>8, EmitKeeps

LEMMA HppKeeps ==
  ASSUME IInv, NEW p \in Proc, EmitHpp(p), At(p, "hpp")
  PROVE  IInv'
<1>1. /\ Active(p) /\ run[p].pc = "hpp" /\ run[p].pc \in Hashed
      /\ Emit(p, "hpp", "commit", "hpp", FromHeaders(run[p]), FALSE \/ Cached(run[p], "hpp"))
  BY DEF EmitHpp, At, Hashed, Emit, Skip, Truncate
<1>2. clean => Libclang /\ run[p].ir = inputs.hdr
  BY <1>1, Knows DEF ReadOK
<1>3. Libclang => "hpp" \notin Past("hpp") /\ "hpp" \in Needed(Probed, inputs.mode)
  BY DEF Past, Needed
<1>4. \A g \in File \ {"hpp"} : "commit" \in Past(g) => "hpp" \in Past(g)
  BY DEF Past, File, Hashed
<1>5. Probed' = Probed
  BY <1>1 DEF Emit, Skip, Truncate, Write, DiskSame, Probed
<1>6. clean /\ disk'["hpp"] = FromHeaders(run[p]) => Current("hpp", Probed)'
  BY <1>2, <1>5 DEF Current, HeaderText, FromHeaders, Probed
<1>7. "hpp" \notin Past("hpp")
  BY DEF Past
<1> QED BY <1>1, <1>2, <1>3, <1>4, <1>6, <1>7, EmitKeeps DEF File, Hashed

(* The phases after parse_headers.                                           *)
LEMMA ParseKeeps ==
  ASSUME IInv, NEW p \in Proc, ParseHeaders(p)
  PROVE  IInv'
<1>0. inputs.hdr \in Hdr
  BY DEF IInv, Shape
<1>4. PICK ir \in Hdr \union {None}, next \in {"shims", "commit"} :
        /\ ir = (IF Libclang THEN inputs.hdr ELSE None)
        /\ next = (IF Libclang THEN "shims" ELSE "commit")
  BY <1>0
<1>1. /\ Active(p) /\ run[p].pc = "parse" /\ run \in [Proc -> Locals \union {Idle}]
      /\ run' = [run EXCEPT ![p].ir = ir, ![p].pc = next]
  BY <1>4 DEF ParseHeaders, At, IInv, Shape
<1>2. /\ inputs' = inputs /\ marker' = marker /\ faults' = faults /\ clean' = clean /\ disk' = disk
      /\ disk = [f \in File |-> disk[f]]
  BY DEF ParseHeaders, DiskSame, IInv, Shape
<1>3. /\ run[p] \in Locals
      /\ run'[p] = [run[p] EXCEPT !.ir = ir, !.pc = next] /\ run' = [run EXCEPT ![p] = run'[p]]
  BY <1>1, IdleIs DEF IInv
<1>5. /\ run'[p] \in Locals /\ run'[p].pc = next /\ run'[p].ir = ir /\ (run'[p].open <=> run[p].open)
      /\ SameKnown(run[p], run'[p])
      /\ InputsChanged(run[p]) <=> InputsChanged(run'[p])
  <2>1. run[p] \in Locals /\ run'[p] = [run[p] EXCEPT !.ir = ir, !.pc = next]
    BY <1>3
  <2>2. next \in Phases
    BY DEF Phases, Hashed
  <2>3. run'[p] \in Locals /\ run'[p].pc = next /\ run'[p].ir = ir /\ (run'[p].open <=> run[p].open)
    BY ONLY <2>1, <2>2 DEF Locals
  <2>4. SameKnown(run[p], run'[p])
    BY ONLY <2>1 DEF Locals, SameKnown
  <2> QED BY <2>3, <2>4 DEF SameKnown, InputsChanged, Fingerprint
<1>6. ASSUME clean PROVE ReadOK(run[p])' /\ FilesOK(run[p])' /\ ~run'[p].open
  <2>1. ReadOK(run[p]) /\ FilesOK(run[p]) /\ ~run[p].open
    BY <1>1, <1>6, Knows DEF ReadOK
  <2>2. ReadOK(run[p])' /\ ~run'[p].open
    BY <1>1, <1>2, <1>4, <1>5, <2>1 DEF ReadOK, SameKnown, Hashed
  <2>3. \A g \in Needed(Probed, inputs.mode) : next \in Past(g) => "parse" \in Past(g)
    BY <1>4 DEF Past, Needed, Hashed
  <2>5. (\A f : Current(f, Probed)' <=> Current(f, Probed)) /\ Probed' = Probed
    BY <1>2 DEF Current, Probed
  <2>6. FilesOK(run[p])'
    BY <1>1, <1>2, <1>5, <2>1, <2>3, <2>5 DEF FilesOK, Needed, Hashed
  <2> QED BY <2>2, <2>6
<1>7. next \in Hashed
  BY <1>4 DEF Hashed
<1> QED
  <2>1. CASE clean
    BY <1>1, <1>2, <1>3, <1>5, <1>6, <1>7, <2>1, RunStep
  <2>2. CASE ~clean
    BY <1>1, <1>2, <1>3, <1>5, <2>2 DEF IInv, Shape
  <2> QED BY <2>1, <2>2 DEF IInv, Shape

LEMMA ShimsKeeps ==
  ASSUME IInv, NEW p \in Proc, EmitShims(p)
  PROVE  IInv'
<1>1. CASE Skip(p, "shims", "hpp", ShimsCached(run[p]))
  <2>1. \A g \in Needed(Probed, inputs.mode) :
          clean /\ "hpp" \in Past(g) /\ InputsChanged(run[p]) => "shims" \in Past(g)
    BY <1>1 DEF Skip, ShimsCached, Cached
  <2> QED BY <1>1, <2>1, SkipKeeps DEF Hashed
<1>2. CASE Truncate(p, "shims", "cpp", ShimsCached(run[p]))
  <2>1. Active(p) /\ run[p].pc = "shims" /\ ~ShimsCached(run[p]) /\ run[p].pc \in Hashed
    BY <1>2 DEF Truncate, At, Hashed
  <2>2. Libclang => "cpp" \in Needed(Probed, inputs.mode) /\ "obj" \in Needed(Probed, inputs.mode)
    BY DEF Needed
  <2>3. clean => Libclang
    BY <2>1, Knows DEF ReadOK
  <2>4. clean => InputsChanged(run[p])
    BY <2>1, <2>2, <2>3, Kept DEF ShimsCached
  <2>5. "shims" \notin Past("cpp") /\ "cpp" \in File
    BY DEF Past, File
  <2> QED BY <1>2, <2>4, <2>5, TruncateKeeps
<1>3. CASE Write(p, "shims", "compile", "cpp", FromHeaders(run[p]))
  <2>1. /\ At(p, "shims") /\ disk' = [disk EXCEPT !["cpp"] = FromHeaders(run[p])] /\ run[p].open
        /\ run' = [run EXCEPT ![p].open = FALSE, ![p].pc = "compile"]
        /\ UNCHANGED <<inputs, marker, edits, faults, clean>>
    BY <1>3 DEF Write
  <2>2. disk'["cpp"] = FromHeaders(run[p])
    BY <2>1 DEF IInv, Shape, File
  <2>3. disk' = [disk EXCEPT !["cpp"] = disk'["cpp"]]
    BY <2>1, <2>2
  <2>4. clean => InputsChanged(run[p]) /\ run[p].ir = inputs.hdr
    BY <2>1, Knows DEF ReadOK, At
  <2>5. "shims" \notin Past("cpp") /\ \A g \in File \ {"cpp"} : "compile" \in Past(g) => "shims" \in Past(g)
    BY DEF Past, File, Hashed
  <2>6. clean => Current("cpp", Probed)'
    BY <2>1, <2>2, <2>4 DEF Current, HeaderText, FromHeaders, Probed
  <2> QED BY <2>1, <2>3, <2>4, <2>5, <2>6, WriteKeeps DEF Hashed, File
<1> QED BY <1>1, <1>2, <1>3 DEF EmitShims

LEMMA CompileKeeps ==
  ASSUME IInv, NEW p \in Proc, Compile(p)
  PROVE  IInv'
<1>1. /\ Active(p) /\ run[p].pc = "compile" /\ run \in [Proc -> Locals \union {Idle}]
      /\ run' = [run EXCEPT ![p].pc = "hpp"] /\ At(p, "compile")
      /\ disk' = [disk EXCEPT !["obj"] = Object] /\ disk = [f \in File |-> disk[f]]
      /\ UNCHANGED <<inputs, marker, edits, faults, clean>>
  BY DEF Compile, At, Goto, IInv, Shape
<1>2. run[p] \in Locals
  BY <1>1, IdleIs DEF IInv
<1>3. CASE clean
  <2>1. ReadOK(run[p]) /\ FilesOK(run[p])
    BY <1>1, <1>3, Knows
  <2>2. InputsChanged(run[p]) /\ run[p].open = FALSE
    BY <1>1, <1>2, <2>1 DEF ReadOK, Locals
  <2>3. run' = [run EXCEPT ![p].open = FALSE, ![p].pc = "hpp"]
    <3>1. [run[p] EXCEPT !.open = FALSE, !.pc = "hpp"] = [run[p] EXCEPT !.pc = "hpp"]
      BY <1>2, <2>2 DEF Locals
    <3> QED BY <1>1, <3>1
  <2>4. disk'["obj"] = Object
    BY <1>1 DEF File
  <2>5. disk' = [disk EXCEPT !["obj"] = disk'["obj"]]
    BY <1>1, <2>4
  <2>6. /\ "compile" \notin Past("obj") /\ "compile" \in Past("cpp")
        /\ \A g \in File \ {"obj"} : "hpp" \in Past(g) => "compile" \in Past(g)
    BY DEF Past, File, Hashed
  <2>7. Libclang
    BY <1>1, <2>1 DEF ReadOK
  <2>8. Current("cpp", Probed)
    BY <1>1, <2>1, <2>6, <2>7 DEF FilesOK, Needed, Hashed
  <2>9. inputs.tool \in Tools
    BY DEF IInv, Shape
  <2>10. Current("obj", Probed)'
    BY <1>1, <2>4, <2>8, <2>9 DEF Current, Object, Probed, HeaderText
  <2> QED BY <1>1, <2>2, <2>3, <2>5, <2>6, <2>10, WriteKeeps DEF Hashed, File
<1>4. CASE ~clean
  <2>1. run'[p] \in Locals /\ run' = [run EXCEPT ![p] = run'[p]]
    BY <1>1, <1>2 DEF Locals, Phases, Hashed
  <2> QED BY <1>1, <1>4, <2>1 DEF IInv, Shape
<1> QED BY <1>3, <1>4 DEF IInv, Shape

-----------------------------------------------------------------------------
(* The phases before the fingerprint leave the files and the marker alone.   *)
LEMMA ReadStep ==
  ASSUME IInv, NEW p \in Proc, NEW r \in Locals, Active(p), run[p].pc \notin Hashed,
         run' = [run EXCEPT ![p] = r], DiskSame, clean => ReadOK(r),
         r.pc \in Hashed => r.pc = "rustHpp" /\ r.prior = marker
  PROVE  IInv'
<1>1. /\ inputs' = inputs /\ marker' = marker /\ faults' = faults /\ clean' = clean /\ disk' = disk
      /\ disk = [f \in File |-> disk[f]] /\ run \in [Proc -> Locals \union {Idle}]
  BY DEF DiskSame, IInv, Shape
<1>2. run'[p] = r /\ run' = [run EXCEPT ![p] = run'[p]]
  BY <1>1
<1>3. ASSUME clean PROVE ReadOK(run[p])' /\ FilesOK(run[p])'
  <2>1. ReadOK(run[p])'
    BY <1>1, <1>2, <1>3 DEF ReadOK, InputsChanged, Fingerprint
  <2>2. ASSUME r.pc \in Hashed, NEW f \in Needed(Probed, inputs.mode),
               "rustHpp" \in Past(f) \/ ~InputsChanged(r)
        PROVE  Current(f, Probed)
    <3>1. "rustHpp" \notin Past(f)
      BY NeededFiles DEF Past, File, Hashed
    <3>2. Fingerprint(r) = Probed
      BY <1>3, <2>2 DEF ReadOK, Fingerprint, Probed, Hashed
    <3>3. marker = Probed
      BY <2>2, <3>1, <3>2 DEF InputsChanged
    <3> QED BY <1>3, <3>3 DEF IInv, Clean, Sound, AllCurrent
  <2>3. (\A f : Current(f, Probed)' <=> Current(f, Probed)) /\ Probed' = Probed
    BY <1>1 DEF Current, Probed
  <2>4. FilesOK(run[p])'
    BY <1>1, <1>2, <2>2, <2>3 DEF FilesOK, Needed
  <2> QED BY <2>1, <2>4
<1> QED BY <1>1, <1>2, <1>3, RunStep

LEMMA ScanKeeps ==
  ASSUME IInv, NEW p \in Proc, ScanRust(p)
  PROVE  IInv'
<1> DEFINE r == [run[p] EXCEPT !.scan = inputs.rs, !.pc = "probe"]
<1>1. /\ Active(p) /\ run[p].pc = "scan" /\ run' = [run EXCEPT ![p] = r] /\ DiskSame
      /\ run[p] \in Locals /\ inputs.rs \in Rs
  BY IdleIs DEF ScanRust, At, IInv, Shape
<1>2. r \in Locals /\ r.pc = "probe"
  BY <1>1 DEF Locals, Phases
<1>3. ASSUME clean PROVE ReadOK(r)
  <2>1. ReadOK(run[p])
    BY <1>1, <1>3, Knows
  <2> QED BY <1>1, <2>1 DEF ReadOK, Locals, Hashed
<1> HIDE DEF r
<1> QED BY <1>1, <1>2, <1>3, ReadStep DEF Hashed

LEMMA ProbeKeeps ==
  ASSUME IInv, NEW p \in Proc, Probe(p)
  PROVE  IInv'
<1>1. /\ Active(p) /\ run[p].pc = "probe" /\ run[p] \in Locals
      /\ inputs.tool \in Tools /\ run \in [Proc -> Locals \union {Idle}]
  BY IdleIs DEF Probe, At, IInv, Shape
<1>2. CASE DiskSame /\ run' = [run EXCEPT ![p].tool = inputs.tool, ![p].pc = "hash"]
  <2> DEFINE r == [run[p] EXCEPT !.tool = inputs.tool, !.pc = "hash"]
  <2>1. r \in Locals /\ r.pc = "hash" /\ run' = [run EXCEPT ![p] = r]
    BY <1>1, <1>2 DEF Locals, Phases
  <2>2. ASSUME clean PROVE ReadOK(r)
    <3>1. ReadOK(run[p])
      BY <1>1, <2>2, Knows
    <3> QED BY <1>1, <3>1 DEF ReadOK, Locals, Hashed
  <2> HIDE DEF r
  <2> QED BY <1>1, <1>2, <2>1, <2>2, ReadStep DEF Hashed
<1>3. CASE /\ faults' = faults + 1 /\ run' = [run EXCEPT ![p].pc = "hash"] /\ clean' = FALSE
           /\ UNCHANGED <<inputs, disk, marker, edits>>
  <2>1. [run[p] EXCEPT !.pc = "hash"] \in Locals
    BY <1>1 DEF Locals, Phases
  <2>2. run' \in [Proc -> Locals \union {Idle}]
    BY <1>1, <1>3, <2>1
  <2>3. Shape /\ faults + 1 \in Nat
    BY DEF IInv, Shape
  <2>4. inputs' = inputs /\ disk' = disk /\ marker' = marker /\ faults' \in Nat /\ clean' \in BOOLEAN
    BY <1>3, <2>3
  <2>5. Shape'
    BY <2>2, <2>3, <2>4 DEF Shape
  <2> QED BY <1>3, <2>5 DEF IInv
<1> QED BY <1>2, <1>3 DEF Probe, DiskSame

LEMMA FingerprintKeeps ==
  ASSUME IInv, NEW p \in Proc, BuildFingerprint(p)
  PROVE  IInv'
<1> DEFINE r == [run[p] EXCEPT !.hashed = inputs.hdr, !.hashedRs = inputs.rs,
                               !.prior = marker, !.pc = "rustHpp"]
<1>1. /\ Active(p) /\ run[p].pc = "hash" /\ run' = [run EXCEPT ![p] = r] /\ DiskSame
      /\ run[p] \in Locals /\ inputs.rs \in Rs /\ inputs.hdr \in Hdr /\ marker \in Marks
  BY IdleIs DEF BuildFingerprint, At, IInv, Shape
<1>2. r \in Locals /\ r.pc = "rustHpp" /\ r.prior = marker
  BY <1>1 DEF Locals, Phases, Hashed
<1>3. ASSUME clean PROVE ReadOK(r)
  <2>1. ReadOK(run[p])
    BY <1>1, <1>3, Knows
  <2> QED BY <1>1, <2>1 DEF ReadOK, Locals, Hashed
<1> HIDE DEF r
<1> QED BY <1>1, <1>2, <1>3, ReadStep DEF Hashed

-----------------------------------------------------------------------------
(* A run starts, writes the marker, or ends; an edit.                        *)
LEMMA LoadKeeps ==
  ASSUME IInv, NEW p \in Proc, LoadInterop(p)
  PROVE  IInv'
<1> DEFINE r == [pc |-> "scan", mode |-> inputs.mode, scan |-> None, tool |-> NoTool,
                 hashed |-> None, hashedRs |-> None, prior |-> None, ir |-> None, open |-> FALSE]
<1>1. /\ run' = [run EXCEPT ![p] = r] /\ run \in [Proc -> Locals \union {Idle}] /\ inputs.mode \in Modes
      /\ UNCHANGED <<inputs, disk, marker, edits, faults>> /\ clean' \in BOOLEAN
      /\ clean' => clean /\ \A q \in Proc : ~Active(q)
  BY DEF LoadInterop, IInv, Shape
<1>2. r \in Locals /\ r.pc = "scan" /\ r.mode = inputs.mode /\ ~r.open
  BY <1>1 DEF Locals, Phases, Marks
<1> HIDE DEF r
<1>3. Shape'
  BY <1>1, <1>2 DEF IInv, Shape
<1>4. ASSUME clean' PROVE Clean'
  <2>1. Clean /\ (\A q \in Proc : ~Active(q)) /\ run'[p] = r
        /\ \A q \in Proc : q # p => run'[q] = run[q]
    BY <1>1, <1>4 DEF IInv
  <2>2. \A q \in Proc : Active(q)' => q = p
    BY <2>1 DEF Active
  <2>3. (ReadOK(run[p]) /\ FilesOK(run[p]))'
    BY <1>1, <1>2, <2>1 DEF ReadOK, FilesOK, Hashed
  <2>4. AllCurrent(Probed, inputs.mode)' <=> AllCurrent(Probed, inputs.mode)
    BY <1>1 DEF AllCurrent, Current, Needed, Probed
  <2>5. AllCurrent(marker, inputs.mode)' <=> AllCurrent(marker, inputs.mode)
    BY <1>1 DEF AllCurrent, Current, Needed
  <2>6. Probed' = Probed /\ \A q \in Proc : run[q].pc \notin Hashed
    BY <1>1, <2>1, IdleIs DEF Probed, IInv
  <2>7. Sound'
    BY <1>1, <2>1, <2>4, <2>6 DEF Clean, Sound
  <2>8. Whole'
    BY <1>1, <2>1, <2>5, <2>6 DEF Clean, Whole
  <2> QED BY <2>2, <2>3, <2>7, <2>8 DEF Clean
<1> QED BY <1>3, <1>4 DEF IInv

LEMMA OpenKeeps ==
  ASSUME IInv, NEW p \in Proc, OpenMarker(p)
  PROVE  IInv'
<1> DEFINE r == [run[p] EXCEPT !.open = TRUE]
<1>1. /\ Active(p) /\ run[p].pc = "commit" /\ run[p] \in Locals /\ run' = [run EXCEPT ![p] = r]
      /\ run \in [Proc -> Locals \union {Idle}] /\ marker' = Torn
      /\ UNCHANGED <<inputs, disk, edits, faults, clean>>
  BY IdleIs DEF OpenMarker, At, IInv, Shape
<1>2. r \in Locals /\ r.pc = "commit" /\ r.open /\ SameKnown(run[p], r)
  BY <1>1 DEF Locals, SameKnown
<1> HIDE DEF r
<1>3. Shape'
  BY <1>1, <1>2 DEF IInv, Shape, Marks
<1>4. ASSUME clean PROVE Clean'
  <2>1. Clean /\ run'[p] = r /\ \A q \in Proc : q # p => run'[q] = run[q] /\ ~Active(q)
    BY <1>1, <1>4 DEF IInv, Clean
  <2>2. ReadOK(run[p]) /\ FilesOK(run[p])
    BY <1>1, <1>4, Knows
  <2>3. \A q \in Proc : Active(q)' => q = p
    BY <2>1 DEF Active
  <2>4. ReadOK(run[p])'
    BY <1>1, <1>2, <2>1, <2>2 DEF ReadOK, SameKnown, Hashed
  <2>5. InputsChanged(r) <=> InputsChanged(run[p])
    BY <1>2 DEF InputsChanged, Fingerprint, SameKnown
  <2>6. (\A f : Current(f, Probed)' <=> Current(f, Probed)) /\ Probed' = Probed
    BY <1>1 DEF Current, Probed
  <2>7. FilesOK(run[p])'
    BY <1>1, <1>2, <2>1, <2>2, <2>5, <2>6 DEF FilesOK, Needed
  <2>8. Probed \in Prints
    BY DEF IInv, Shape, Probed, Prints
  <2>9. Sound' /\ Whole'
    BY <1>1, <1>2, <2>1, <2>6, <2>8 DEF Sound, Whole, Hashed
  <2> QED BY <2>3, <2>4, <2>7, <2>9 DEF Clean
<1> QED BY <1>1, <1>3, <1>4 DEF IInv

LEMMA CommitKeeps ==
  ASSUME IInv, NEW p \in Proc, Commit(p)
  PROVE  IInv'
<1>1. /\ Active(p) /\ run[p].pc = "commit" /\ run[p] \in Locals /\ run' = [run EXCEPT ![p] = Idle]
      /\ run \in [Proc -> Locals \union {Idle}] /\ marker' = Fingerprint(run[p])
      /\ UNCHANGED <<inputs, disk, edits, faults, clean>>
  BY IdleIs DEF Commit, At, IInv, Shape
<1>2. Fingerprint(run[p]) \in Marks
  BY <1>1 DEF Fingerprint, Marks, Locals
<1>3. Shape'
  BY <1>1, <1>2 DEF IInv, Shape
<1>4. ASSUME clean PROVE Clean'
  <2>1. ReadOK(run[p]) /\ FilesOK(run[p])
    BY <1>1, <1>4, Knows
  <2>2. \A q \in Proc : ~Active(q)'
    BY <1>1, <1>4 DEF IInv, Clean, Active
  <2>3. Fingerprint(run[p]) = Probed /\ Probed' = Probed
    BY <1>1, <2>1 DEF ReadOK, Fingerprint, Probed, Hashed
  <2>4. \A f \in Needed(Probed, inputs.mode) : "commit" \in Past(f)
    BY DEF Needed, Past, Hashed
  <2>5. AllCurrent(Probed, inputs.mode)
    BY <1>1, <2>1, <2>4 DEF FilesOK, AllCurrent, Hashed
  <2>6. AllCurrent(Probed, inputs.mode)' <=> AllCurrent(Probed, inputs.mode)
    BY <1>1 DEF AllCurrent, Current, Needed, Probed
  <2>7. Probed \in Prints
    BY DEF IInv, Shape, Probed, Prints
  <2>8. marker' = Probed'
    BY <1>1, <2>3
  <2>9. Sound' /\ Whole'
    BY <2>3, <2>5, <2>6, <2>7, <2>8 DEF Sound, Whole
  <2> QED BY <2>2, <2>9 DEF Clean
<1> QED BY <1>1, <1>3, <1>4 DEF IInv

LEMMA AbortKeeps ==
  ASSUME IInv, NEW p \in Proc, Abort(p)
  PROVE  IInv'
<1>1. /\ run' = [run EXCEPT ![p] = Idle] /\ run \in [Proc -> Locals \union {Idle}]
      /\ faults \in Nat /\ faults' = faults + 1
      /\ UNCHANGED <<inputs, disk, marker, edits, clean>>
  BY DEF Abort, IInv, Shape
<1>2. run' \in [Proc -> Locals \union {Idle}] /\ faults' \in Nat /\ faults' # 0
  BY <1>1
<1>3. Shape'
  BY <1>1, <1>2 DEF IInv, Shape
<1>4. ASSUME clean PROVE Clean'
  <2>1. Clean /\ \A q \in Proc : Active(q)' => Active(q) /\ run'[q] = run[q]
    BY <1>1, <1>4 DEF IInv, Active
  <2>2. (\A f : Current(f, Probed)' <=> Current(f, Probed)) /\ Probed' = Probed
    BY <1>1 DEF Current, Probed
  <2>3. ASSUME NEW q \in Proc, Active(q)' PROVE (ReadOK(run[q]) /\ FilesOK(run[q]))'
    <3>1. ReadOK(run[q]) /\ FilesOK(run[q]) /\ run'[q] = run[q]
      BY <2>1, <2>3 DEF Clean
    <3>2. ReadOK(run[q])'
      BY <1>1, <3>1 DEF ReadOK
    <3>3. FilesOK(run[q])'
      BY <1>1, <2>2, <3>1 DEF FilesOK, Needed
    <3> QED BY <3>2, <3>3
  <2>4. AllCurrent(Probed, inputs.mode)' <=> AllCurrent(Probed, inputs.mode)
    BY <1>1 DEF AllCurrent, Current, Needed, Probed
  <2>5. Sound' /\ Whole'
    BY <1>1, <1>2, <2>1, <2>2, <2>4 DEF Clean, Sound, Whole
  <2>6. \A q, u \in Proc : Active(q)' /\ Active(u)' => q = u
    BY <2>1 DEF Clean
  <2> QED BY <2>3, <2>5, <2>6 DEF Clean
<1> QED BY <1>1, <1>3, <1>4 DEF IInv

LEMMA EditKeeps ==
  ASSUME IInv, Edit
  PROVE  IInv'
<1>1. inputs \in [hdr : Hdr, rs : Rs, mode : Modes, tool : Tools]
  BY DEF IInv, Shape
<1>2. inputs' \in [hdr : Hdr, rs : Rs, mode : Modes, tool : Tools]
  BY <1>1 DEF Edit
<1>3. /\ UNCHANGED <<disk, marker, run, faults>> /\ clean' \in BOOLEAN
      /\ clean' => /\ clean /\ \A p \in Proc : ~Active(p)
                   /\ inputs'.mode = inputs.mode
                   /\ faults = 0 \/ marker # Probed'
  BY DEF Edit, IInv, Shape
<1>4. Shape'
  BY <1>2, <1>3 DEF IInv, Shape
<1>5. ASSUME clean' PROVE Clean'
  <2>1. Clean /\ (\A p \in Proc : ~Active(p)) /\ inputs'.mode = inputs.mode
    BY <1>3, <1>5 DEF IInv
  <2>2. \A p \in Proc : ~Active(p)' /\ run[p].pc \notin Hashed
    BY <1>3, <2>1, IdleIs DEF IInv, Active
  <2>3. AllCurrent(marker, inputs.mode)' <=> AllCurrent(marker, inputs.mode)
    BY <1>3, <2>1 DEF AllCurrent, Current, Needed
  <2>4. Whole'
    BY <1>3, <2>1, <2>2, <2>3 DEF Clean, Whole
  <2>5. Probed' \in Prints
    BY <1>2 DEF Probed, Prints
  <2>6. ASSUME marker' = Probed' PROVE AllCurrent(Probed, inputs.mode)'
    <3>1. faults = 0 /\ marker # None
      BY <1>3, <1>5, <2>5, <2>6
    <3>2. AllCurrent(marker, inputs.mode)'
      BY <2>1, <2>2, <2>3, <3>1 DEF Clean, Whole
    <3> QED BY <2>6, <3>2
  <2> QED BY <2>2, <2>4, <2>6 DEF Clean, Sound
<1> QED BY <1>4, <1>5 DEF IInv

-----------------------------------------------------------------------------
(* IncrementalSound: after builds of which each was alone and saw no edit, a *)
(* marker that matches the inputs vouches for the artefacts, whichever runs  *)
(* were killed, and wherever.                                                *)
THEOREM IncrementalCorrect == Spec => []IncrementalSound
<1>1. Init => IInv
  <2> SUFFICES ASSUME Init PROVE IInv
    OBVIOUS
  <2>1. Probed \in Prints /\ Shape
    BY DEF Init, Shape, Probed, Prints, Marks
  <2>2. \A p \in Proc : ~Active(p)
    BY DEF Init, Active
  <2>3. marker = None /\ marker # Probed
    BY <2>1 DEF Init
  <2> QED BY <2>1, <2>2, <2>3 DEF IInv, Clean, Sound, Whole
<1>2. IInv /\ [Next]_vars => IInv'
  <2> SUFFICES ASSUME IInv, [Next]_vars PROVE IInv'
    OBVIOUS
  <2>1. ASSUME NEW p \in Proc, Step(p) PROVE IInv'
    <3>1. EmitRustHpp(p) => At(p, "rustHpp")
      BY DEF EmitRustHpp, Emit, Skip, Truncate, Write
    <3>2. EmitStubs(p) => At(p, "stubs")
      BY DEF EmitStubs, Emit, Skip, Truncate, Write
    <3>3. EmitForwarders(p) => At(p, "forwarders")
      BY DEF EmitForwarders, Emit, Skip, Truncate, Write
    <3>4. EmitHpp(p) => At(p, "hpp")
      BY DEF EmitHpp, Emit, Skip, Truncate, Write
    <3> QED BY <2>1, <3>1, <3>2, <3>3, <3>4, LoadKeeps, ScanKeeps, ProbeKeeps, FingerprintKeeps,
               RustHppKeeps, StubsKeeps, ForwardersKeeps, ParseKeeps, ShimsKeeps, CompileKeeps,
               HppKeeps, OpenKeeps, CommitKeeps DEF Step
  <2>2. CASE UNCHANGED vars
    <3>1. Shape'
      BY <2>2 DEF vars, IInv, Shape
    <3>2. /\ inputs' = inputs /\ disk' = disk /\ marker' = marker /\ run' = run /\ faults' = faults
          /\ Probed' = Probed
      BY <2>2 DEF vars, Probed
    <3>3. \A f, fp : Current(f, fp)' <=> Current(f, fp)
      BY <3>2 DEF Current
    <3>4. (\A r : ReadOK(r)' <=> ReadOK(r)) /\ (\A r : FilesOK(r)' <=> FilesOK(r))
      BY <3>2, <3>3 DEF ReadOK, FilesOK, Needed
    <3>5. (Sound' <=> Sound) /\ (Whole' <=> Whole)
      BY <3>2, <3>3 DEF Sound, Whole, AllCurrent, Needed
    <3>6. Clean => Clean'
      BY <3>2, <3>4, <3>5 DEF Clean, Active
    <3> QED BY <2>2, <3>1, <3>6 DEF IInv, vars
  <2> QED BY <2>1, <2>2, EditKeeps, AbortKeeps DEF Next
<1>3. IInv => IncrementalSound
  BY DEF IInv, Clean, Sound, IncrementalSound
<1> QED BY <1>1, <1>2, <1>3, PTL DEF Spec
=============================================================================
