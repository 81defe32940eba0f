--------------------------------- MODULE Cache ---------------------------------
(***************************************************************************)
(* The schema cache (cache/cache.go): one file that Save truncates and     *)
(* then writes piece by piece, and that Load reads piece by piece and      *)
(* believes only if the checksums, the format version and the hash agree.  *)
(* Nothing locks the file: saves and loads of several processes overlap,   *)
(* fail and are killed.                                                    *)
(*                                                                         *)
(* A piece of the file is <<v, i>>, the i-th of the file of v.  External:  *)
(* the file system (each open file has an offset of its own and creating   *)
(* a file truncates it under its readers and writers) and the checksums,   *)
(* which tell any other sequence of pieces from a whole file.              *)
(***************************************************************************)
EXTENDS Drift

CONSTANTS
  Savers, Loaders,  \* calls of Save, of Load and Check
  Versions,         \* catalogs, as saved by a version of the program
  Lives,            \* live catalogs Check is called with
  Content,          \* version or live catalog -> what it contains, see Drift
  Pieces,           \* version -> number of pieces of its file
  Oversized,        \* versions of more than maxCacheBytes
  OldFormat,        \* versions of another CatalogFormatVersion
  None              \* no version: no file, no live catalog, an error

IsFunction(f) == f = [x \in DOMAIN f |-> f[x]]

\* The maps by name that Diff builds, and the lists it takes as they are.
IsCatalog(c) ==
  /\ c = [format |-> c.format, version |-> c.version, schemas |-> c.schemas,
          tables |-> c.tables, enums |-> c.enums, composites |-> c.composites,
          functions |-> c.functions]
  /\ IsFunction(c.tables) /\ IsFunction(c.enums) /\ IsFunction(c.composites)
  /\ c.schemas \in Seq(ToSet(c.schemas))
  /\ c.functions \in Seq(ToSet(c.functions))

ASSUME ContentAssumption == \A v \in Versions \cup Lives : IsCatalog(Content[v])

ASSUME ConstantsAssumption ==
  /\ None \notin Versions
  /\ Oversized \subseteq Versions /\ OldFormat \subseteq Versions
  /\ \A v \in Versions : Pieces[v] \in Nat \ {0}

Hole == <<None, 0>>

VARIABLES
  exists, file,  \* the file
  save,          \* saver -> the version it writes, or None
  offset,        \* saver -> pieces written
  load,          \* loader -> reading
  got,           \* loader -> the pieces read
  reply,         \* what the step just taken returned, or Silent
  alone,         \* history: savers under way that have met no other
  sure,          \* history: the version the last undisturbed Save left
  may, due       \* history: loader -> versions it may return; must return

saving  == <<exists, file, save, offset, alone, sure>>
loading == <<load, got, may, due>>
vars    == <<saving, loading, reply>>

Loadable(v) == v \notin Oversized \cup OldFormat

Silent == [version |-> None, live |-> None, drift |-> FALSE, lines |-> {},
           may |-> {}, due |-> None]
Quiet  == reply' = Silent

Init ==
  /\ exists = FALSE /\ file = <<>>
  /\ save = [s \in Savers |-> None] /\ offset = [s \in Savers |-> 0]
  /\ load = [r \in Loaders |-> FALSE] /\ got = [r \in Loaders |-> <<>>]
  /\ reply = Silent
  /\ alone = {} /\ sure = None
  /\ may = [r \in Loaders |-> {}] /\ due = [r \in Loaders |-> None]

-----------------------------------------------------------------------------
(* Save *)

Saving == {s \in Savers : save[s] # None}

\* Mutant of Created: without O_TRUNC.
Reopened == exists' = TRUE /\ file' = file

Created == exists' = TRUE /\ file' = <<>>

\* os.Create, after the hash.  Loads under way may meet the new version, and
\* no longer have to find the old one.
Create(s, v) ==
  /\ save[s] = None
  /\ Created
  /\ save' = [save EXCEPT ![s] = v]
  /\ offset' = [offset EXCEPT ![s] = 0]
  /\ alone' = IF Saving = {} THEN {s} ELSE {}
  /\ sure' = None
  /\ may' = [r \in Loaders |-> may[r] \cup IF load[r] THEN {v} ELSE {}]
  /\ due' = [r \in Loaders |-> None]
  /\ Quiet
  /\ UNCHANGED <<load, got>>

Put(p, i) == [j \in 1 .. (IF i > Len(file) THEN i ELSE Len(file)) |->
                IF j = i THEN p ELSE IF j <= Len(file) THEN file[j] ELSE Hole]

\* A write of the encoder or of the gzip writer's Close reaches the file.
Write(s) ==
  /\ save[s] # None /\ offset[s] < Pieces[save[s]]
  /\ offset' = [offset EXCEPT ![s] = @ + 1]
  /\ file' = Put(<<save[s], offset'[s]>>, offset'[s])
  /\ Quiet
  /\ UNCHANGED <<exists, save, alone, sure, loading>>

\* Mutant of Gone: the saver's offset stays for the next file.
GoneKeeping(s) ==
  /\ save' = [save EXCEPT ![s] = None]
  /\ alone' = alone \ {s}
  /\ Quiet
  /\ UNCHANGED <<exists, file, offset, loading>>

Gone(s) ==
  /\ save' = [save EXCEPT ![s] = None]
  /\ offset' = [offset EXCEPT ![s] = 0]
  /\ alone' = alone \ {s}
  /\ Quiet
  /\ UNCHANGED <<exists, file, loading>>

\* Save returns nil.
Saved(s) ==
  /\ save[s] # None /\ offset[s] = Pieces[save[s]]
  /\ sure' = IF s \in alone /\ Loadable(save[s]) THEN save[s] ELSE sure
  /\ Gone(s)

\* A write or a close fails, or the process is killed: what was written stays.
SaveFails(s) ==
  /\ save[s] # None
  /\ UNCHANGED sure
  /\ Gone(s)

-----------------------------------------------------------------------------
(* Load and Check *)

\* What a quiet load could find: the versions in the file and those being
\* written.
Current == {file[i][1] : i \in DOMAIN file} \cup {save[s] : s \in Saving}

Open(r) ==
  /\ ~load[r] /\ exists
  /\ load' = [load EXCEPT ![r] = TRUE]
  /\ may' = [may EXCEPT ![r] = Current]
  /\ due' = [due EXCEPT ![r] = sure]
  /\ Quiet
  /\ UNCHANGED <<saving, got>>

Read(r) ==
  /\ load[r] /\ Len(got[r]) < Len(file)
  /\ got' = [got EXCEPT ![r] = Append(@, file[Len(@) + 1])]
  /\ Quiet
  /\ UNCHANGED <<saving, load, may, due>>

Whole(v) == [i \in 1 .. Pieces[v] |-> <<v, i>>]

\* Mutant of Loaded: the first piece names the version, no checksum is compared.
LoadedUnchecked(pieces) ==
  IF pieces = <<>> \/ pieces[1][1] = None \/ ~Loadable(pieces[1][1]) THEN None
  ELSE IF pieces = Whole(pieces[1][1]) THEN pieces[1][1] ELSE "mixed"

\* The version whose whole file was read, or an error.
Loaded(pieces) ==
  LET whole == {v \in Versions : Loadable(v) /\ pieces = Whole(v)}
  IN  IF whole = {} THEN None ELSE CHOOSE v \in whole : TRUE

\* Load, or Check with a live catalog, for the version loaded.
Compared(v, l) ==
  LET drift == v # None /\ l # None /\ Hash(Content[v]) # Hash(Content[l])
  IN  [Silent EXCEPT !.version = v, !.live = l, !.drift = drift,
                     !.lines = IF drift THEN Diff(Content[v], Content[l]) ELSE {}]

\* The end of the file, or the cap of io.LimitReader.
Return(r, l) ==
  /\ load[r] /\ Len(got[r]) >= Len(file)
  /\ reply' = [Compared(Loaded(got[r]), l) EXCEPT !.may = may[r], !.due = due[r]]
  /\ load' = [load EXCEPT ![r] = FALSE]
  /\ got' = [got EXCEPT ![r] = <<>>]
  /\ may' = [may EXCEPT ![r] = {}]
  /\ due' = [due EXCEPT ![r] = None]
  /\ UNCHANGED saving

Next ==
  \/ \E s \in Savers :
       \/ \E v \in Versions : Create(s, v)
       \/ Write(s) \/ Saved(s) \/ SaveFails(s)
  \/ \E r \in Loaders :
       \/ Open(r) \/ Read(r)
       \/ \E l \in Lives \cup {None} : Return(r, l)

Spec == Init /\ [][Next]_vars

-----------------------------------------------------------------------------
(* Properties *)

\* The variables have their types, and nobody writes past the end of its file.
TypeOK ==
  /\ exists \in BOOLEAN
  /\ \A i \in DOMAIN file : file[i] = Hole \/ \E v \in Versions :
       file[i][1] = v /\ file[i][2] = i
  /\ \A s \in Savers : /\ save[s] \in Versions \cup {None}
                       /\ offset[s] \in 0 .. IF save[s] = None THEN 0 ELSE Pieces[save[s]]
  /\ alone \subseteq Saving
  /\ \A r \in Loaders : /\ load[r] \in BOOLEAN /\ may[r] \subseteq Versions \cup {None}
                        /\ due[r] \in Versions \cup {None}
  /\ reply.live \in Lives \cup {None}

\* "Load reads a catalog written by Save, verifying version and hash"
\* (cache.go:55): however saves overlap, fail and are killed, a load returns
\* an error or one whole catalog, of a Save that the file held something of
\* when the load began or that began since.  A catalog overwritten before is
\* never returned.
LoadedWasSaved ==
  reply.version # None => reply.version \in reply.may /\ Loadable(reply.version)

\* A Save that met no other and returned nil is what every later load returns
\* that no Save overlaps, also after a Save that was killed left half a file,
\* or a longer one.
SavedIsLoaded ==
  reply.due # None => reply.version = reply.due

\* Functions with a name of their own.
NoOverloads(c) ==
  \A i, j \in DOMAIN c.functions : c.functions[i].key = c.functions[j].key => i = j

\* The same elements, each as often, in some order.
Reordered(s, t) ==
  \E p \in Bijection(DOMAIN s, DOMAIN t) : \A i \in DOMAIN s : s[i] = t[p[i]]

SameButOrder(c, l) ==
  /\ Reordered(c.schemas, l.schemas) /\ Reordered(c.functions, l.functions)
  /\ [c EXCEPT !.schemas = None, !.functions = None]
       = [l EXCEPT !.schemas = None, !.functions = None]

\* What Diff looks at: not the format, and which schemas, not how often.
Covered(c) == [c EXCEPT !.format = None, !.schemas = ToSet(@), !.functions = ToSet(@)]

\* Check (cache.go:97) says that there is no drift only of catalogs that are the
\* same but for the order of their lists, and says it of all of those that have
\* no overloads.  Where anything differs that Diff looks at, whichever part of
\* the catalog it lies in, Diff names something ("report it coarsely rather than
\* staying silent", introspect/diff.go:123).  Of what it does not look at, or
\* hides in overloads, EmptyMeansNoDrift and OrderIsNoDrift speak.
DriftIsTold ==
  reply.version # None /\ reply.live # None =>
    LET c == Content[reply.version]  l == Content[reply.live] IN
    /\ ~reply.drift => SameButOrder(c, l)
    /\ c = l => ~reply.drift
    /\ NoOverloads(c) /\ NoOverloads(l) =>
         /\ SameButOrder(c, l) => ~reply.drift
         /\ Covered(c) # Covered(l) => reply.lines # {}

\* "Empty means no drift" (introspect/diff.go:12): drift is never reported
\* without a line that says where it lies.
EmptyMeansNoDrift == reply.drift => reply.lines # {}

\* "Hash returns a stable content hash of the catalog, used by the schema cache
\* [...] to detect drift" (introspect/catalog.go:226): the order the queries
\* happen to give is none of the content.
OrderIsNoDrift ==
  reply.drift => ~SameButOrder(Content[reply.version], Content[reply.live])

===============================================================================
