--------------------------- MODULE MCAssetManager ---------------------------
(* Two identifiers, two callers and two packages, which together exceed    *)
(* the limit; or a file system in memory, with pages of 4 bytes and chunks *)
(* of 2 characters.                                                        *)
EXTENDS AssetManager, InMemoryFileSystem, TLC

VARIABLE part   \* which of the two the behaviour is of

MCSizes == <<1, 2>>
Symmetry == Permutations(Ids) \cup Permutations(Callers)

MCBytes == [x |-> 3, y |-> 5, torn |-> 1]
MCDirectories ==
  {<<>> :> Dir @@ <<"a">> :> Dir @@ <<"a", "a">> :> "x" @@ <<"a", "b">> :> "y" @@ <<"b">> :> "y"}
MCTexts ==
  {<<"}">>, <<"{">>, <<"0">>,
   <<"{", "{", "}", "}", "quote">>,
   <<"{", "quote", "}", "quote", "}", "0">>,
   <<"{", "quote", "x", "escape", "quote", "}", "quote", "}">>,
   <<"{", "quote", "escape", "quote", "quote", "}">>,
   <<"{", "quote", "escape", "quote", "}", "quote", "}">>,
   <<"{", "quote", "escape", "escape", "quote", "}">>,
   <<"{", "x", "x", "x", "x", "x", "x", "x", "x", "}">>}
MCTargets == {<<>>, <<"a">>, <<"b">>}

InitMC ==
  /\ Init /\ FsInit
  /\ part = "files" \/ (part = "assets" /\ tree = NewFs(RootName))

NextMC ==
  \/ part = "assets" /\ Next /\ UNCHANGED <<FsVars, part>>
  \/ part = "files" /\ FsNext /\ UNCHANGED <<vars, part>>

SpecMC == InitMC /\ [][NextMC]_<<vars, FsVars, part>>
=============================================================================
