-------------------------------- MODULE Site --------------------------------
(***************************************************************************)
(* From a directory to the answers of the server: internal/archive and the *)
(* handler of internal/serve.  A name, and the path of a URL behind its     *)
(* first slash, is the sequence of the segments between slashes: a path    *)
(* that ends in a slash has "" as its last.  A file is known by its        *)
(* contents.                                                               *)
(***************************************************************************)
EXTENDS Naturals, SequencesExt

CONSTANTS
    Segments, \* all of them: "", ".", ".." and names
    Dotted,  \* the segments with a dot in them
    Key,     \* the random path key
    NotFound \* the answer 404

ASSUME SegmentsAssumption == {"", ".", ".."} \subseteq Segments

\* A segment that a file or a directory can be called by.
Plain == Segments \ {"", ".", ".."}

\* A directory: root is "dir", or "link" if its name is that of a symbolic link
\* to it; entries has its regular files and symbolic links.
Options == [pathKey : BOOLEAN, entry : Seq(Segments), fallback : BOOLEAN]

\* filepath.WalkDir: the root itself, which is not followed if it is a link,
\* and what is under it.
Walked(tree) ==
    IF tree.root = "link" THEN {[type |-> "link"]} ELSE tree.entries

\* FAULT: links are put in like files.
FaultLinksToo(tree) ==
    {[name |-> e.name, data |-> e.data] : e \in Walked(tree)}

\* archive.Create: the regular files.
Create(tree) ==
    {[name |-> e.name, data |-> e.data] : e \in {w \in Walked(tree) : w.type = "regular"}}

\* path.Clean: "" and "." say nothing; ".." goes up, but, in a rooted path, not
\* beyond the root.
Step(rooted, at, s) ==
    CASE s \in {"", "."} -> at
      [] s = ".." -> IF at # <<>> /\ Last(at) # ".." THEN Front(at)
                     ELSE IF rooted THEN at ELSE Append(at, s)
      [] OTHER -> Append(at, s)
Cleaned(rooted, segments) ==
    LET at[i \in 0..Len(segments)] ==
            IF i = 0 THEN <<>> ELSE Step(rooted, at[i - 1], segments[i])
    IN  at[Len(segments)]
Clean(segments) == Cleaned(TRUE, segments)

\* path.Join, which keeps the slash that a path begins with.
Join(upath, entry) ==
    IF upath[1] = "" THEN <<"">> \o Clean(upath \o entry) ELSE Cleaned(FALSE, upath \o entry)

\* archive.Extract, which takes no archive with a name that comes to nothing.
Extracts(tar) == \A e \in tar : Clean(e.name) # <<>>
Extract(tar) ==
    [n \in {Clean(e.name) : e \in tar} |-> (CHOOSE e \in tar : Clean(e.name) = n).data]

-----------------------------------------------------------------------------
(* serve.handler. *)

LooksLikeFile(upath) == Last(upath) \in Dotted

\* The path is under the key, if there is one.
Admitted(opt, path) == opt.pathKey => Head(path) = Key

\* What is left without the key, cleaned.
At(opt, path) == Clean(IF opt.pathKey THEN Tail(path) ELSE path)

\* FAULT: the key is left in the path.
FaultKeyKept(opt, path) ==
    IF Clean(path) = <<>> THEN opt.entry ELSE Clean(path)

\* The entry point if that is nothing.
Upath(opt, path) == IF At(opt, path) = <<>> THEN opt.entry ELSE At(opt, path)

\* FAULT: a missing file is taken for a route of the application.
FaultAnyRoute(opt, path) ==
    IF ~Admitted(opt, path) THEN <<>>
    ELSE <<Upath(opt, path)>> \o (IF opt.fallback THEN <<opt.entry>> ELSE <<>>)

\* The names looked up, in turn: the path; if it ends in a slash, the entry point
\* of that directory; with the fallback, and if it is no file's, the entry point.
Candidates(opt, path) ==
    LET upath == Upath(opt, path)
    IN  IF ~Admitted(opt, path) THEN <<>>
        ELSE <<upath>>
             \o (IF Last(path) = "" THEN <<Join(upath, opt.entry)>> ELSE <<>>)
             \o (IF opt.fallback /\ ~LooksLikeFile(upath) THEN <<opt.entry>> ELSE <<>>)

\* The contents of the first that there is.
Answer(files, opt, path) ==
    LET hit == SelectInSeq(Candidates(opt, path), LAMBDA n : n \in DOMAIN files)
    IN  IF hit = 0 THEN NotFound ELSE files[Candidates(opt, path)[hit]]

\* Where the files are; Server.URL is that directory.
Base(opt) == IF opt.pathKey THEN <<Key>> ELSE <<>>
Url(opt) == Base(opt) \o <<"">>

-----------------------------------------------------------------------------
(* Properties, of one directory, the server's options and one request. *)

Regular(tree) == {e \in tree.entries : e.type = "regular"}

\* What is in the directory is sealed: all its regular files, under their names,
\* and nothing that a link in it points to.
DirectoryIsSealed(tree) ==
    /\ Extracts(Create(tree))
    /\ LET files == Extract(Create(tree))
       IN  /\ DOMAIN files = {e.name : e \in Regular(tree)}
           /\ \A e \in Regular(tree) : files[e.name] = e.data

\* Every file has its address: under the key, at its own name; so has the
\* entry point, if there is one, at the address that is printed.
EveryFileHasItsAddress(tree, opt) ==
    LET files == Extract(Create(tree))
    IN  /\ \A e \in Regular(tree) : Answer(files, opt, Base(opt) \o e.name) = e.data
        /\ opt.entry \in DOMAIN files => Answer(files, opt, Url(opt)) = files[opt.entry]

\* What is sent was asked for: under the key; and it is the file the path leads
\* to, or that directory's entry point, or, with the fallback, the entry point in
\* place of a route, but never in place of a missing file.  If the entry point of
\* the root is a directory, it may be the entry point in there.
NothingUnasked(tree, opt, path) ==
    LET files == Extract(Create(tree))
        at    == At(opt, path)
    IN  Answer(files, opt, path) # NotFound =>
        /\ opt.pathKey => path[1] = Key
        /\ \E e \in Regular(tree) :
            /\ Answer(files, opt, path) = e.data
            /\ \/ e.name = at
               \/ at = <<>> /\ e.name \in {opt.entry, Join(opt.entry, opt.entry)}
               \/ at # <<>> /\ Last(path) = "" /\ e.name = Join(at, opt.entry)
               \/ opt.fallback /\ e.name = opt.entry /\ (at = <<>> \/ Last(at) \notin Dotted)
=============================================================================
