-------------------------------- MODULE Rails --------------------------------
(***************************************************************************)
(* The rails that look at a path, of internal/config/config.go:            *)
(* Safety.WithinAllowedRoot, with Clean and Rel of path/filepath as it uses*)
(* them, and Safety.IsProtectedExt.                                        *)
(*                                                                         *)
(* A path is a sequence of names, absolute or not; a file name, a sequence *)
(* of parts between dots; case and spaces are abstracted.                  *)
(***************************************************************************)
EXTENDS Naturals, SequencesExt

Path(abs, names) == [abs |-> abs, names |-> names]

(* The parent of the root is the root; other leading ".." stay.            *)
Step(abs, clean, name) ==
    CASE name = "."                                                -> clean
      [] name = ".." /\ clean # <<>> /\ clean[Len(clean)] # ".."  -> Front(clean)
      [] name = ".." /\ clean = <<>> /\ abs                        -> clean
      [] OTHER                                                     -> Append(clean, name)

Clean(p) ==
    LET clean[n \in 0..Len(p.names)] ==
            IF n = 0 THEN <<>> ELSE Step(p.abs, clean[n - 1], p.names[n])
    IN  Path(p.abs, clean[Len(p.names)])

Common(s, t) == Max({n \in 0..Min({Len(s), Len(t)}) : SubSeq(s, 1, n) = SubSeq(t, 1, n)})

(* Of two clean paths, what leads from the first to the second; nothing    *)
(* relates a relative path to an absolute one, or knows a way back into a  *)
(* directory that was left by "..".                                        *)
CanRelate(base, target) ==
    /\ base.abs = target.abs
    /\ LET n == Common(base.names, target.names)
       IN  \A i \in n + 1..Len(base.names) : base.names[i] # ".."

Rel(base, target) ==
    LET n == Common(base.names, target.names)
    IN  [i \in 1..Len(base.names) - n |-> ".."]
        \o SubSeq(target.names, n + 1, Len(target.names))

UnderUncleaned(path, root) ==     \* mutant: the path is taken as it comes
    /\ CanRelate(root, path)
    /\ \/ Rel(root, path) = <<>>
       \/ Rel(root, path)[1] # ".."
Under(path, root) ==
    LET clean == Clean(path)
    IN  /\ CanRelate(root, clean)
        /\ \/ Rel(root, clean) = <<>>
           \/ Rel(root, clean)[1] # ".."

(* The roots are cleaned when the configuration is loaded.                 *)
WithinAllowedRoot(path, roots) == \E root \in roots : Under(path, Clean(root))

(* filepath.Ext is what follows the last dot, dot included, if any.        *)
Ext(file) == IF Len(file) > 1 THEN <<file[Len(file)]>> ELSE <<>>

IsProtectedExt(file, extensions) == Ext(file) \in extensions
-----------------------------------------------------------------------------
(* Where one gets by walking an absolute path: the stack of directories one*)
(* is in after each name.                                                  *)
Walked(place, name) ==
    CASE name = "."  -> place
      [] name = ".." -> SubSeq(place, 1, Len(place) - 1)
      [] OTHER       -> place \o <<name>>
Place(p) ==
    LET at[n \in 0..Len(p.names)] ==
            IF n = 0 THEN <<>> ELSE Walked(at[n - 1], p.names[n])
    IN  at[Len(p.names)]

(* A path is under an allowed root just when walking it ends there or      *)
(* below, whatever "." and ".." it or the root contain; and never under a  *)
(* relative root.                                                          *)
AllowlistExactFor(path, roots) ==
    WithinAllowedRoot(path, roots) <=>
        \E root \in roots : root.abs /\ IsPrefix(Place(root), Place(path))

(* A file whose name ends in a listed extension is protected.              *)
ListedIsProtectedFor(file, extensions) ==
    (\E e \in extensions : e # <<>> /\ Len(file) > Len(e) /\ IsSuffix(e, file))
        => IsProtectedExt(file, extensions)
=============================================================================
