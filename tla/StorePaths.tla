----------------------------- MODULE StorePaths -----------------------------
(***************************************************************************)
(* The directories that a start needs: makePath of fpdcommunity.cpp, which *)
(* creates a path downwards, and getDefaultGroupPath of androidfp.cpp,     *)
(* which picks the one of the sensor.  A path is the chain of those of its *)
(* directories that may be missing, Depth of them; two paths share none.   *)
(***************************************************************************)
EXTENDS Naturals

CONSTANTS Depth, ApiLevels

LegacyPath == "/data/system/users/%1/fpdata"
VendorPath == "/data/vendor_de/%1/fpdata"
FpdPath == "/var/lib/sailfish-fpd-community/%1"
GroupPaths == {LegacyPath, VendorPath}
Paths == GroupPaths \union {FpdPath}
Levels == 1..Depth

ASSUME DepthAssumption == Depth \in Nat \ {0}
ASSUME ApiLevelsAssumption == ApiLevels \subseteq Nat \ {0}

VARIABLES
  dirs,     \* of each directory: "missing", "made" or "complete"
  making,   \* the path that makePath is creating, and how far it is
  unmade    \* the paths for which makePath has returned false

storePaths == <<dirs, making, unmade>>

NotMaking == [path |-> "none"]

Exists(path, level) == dirs[path][level] # "missing"

StoreTypeOK ==
  /\ dirs \in [Paths -> [Levels -> {"missing", "made", "complete"}]]
  /\ making \in {NotMaking} \union [path : Paths, from : Levels, level : Levels]
  /\ unmade \subseteq Paths

(* Seeded fault: a path is taken to exist when it has a parent.            *)
makePath_ParentOnly(path) ==
  IF Exists(path, 1)
  THEN UNCHANGED making
  ELSE making' = [path |-> path, from |-> 1, level |-> 1]

(* The recursion: from the leaf up to a directory that exists, whatever    *)
(* its owner and permissions are.                                          *)
makePath(path) ==
  IF Exists(path, Depth)
  THEN UNCHANGED making
  ELSE \E first \in Levels :
         /\ ~Exists(path, first)
         /\ \A level \in 1..(first - 1) : Exists(path, level)
         /\ making' = [path |-> path, from |-> first, level |-> first]

(* Seeded fault: a failed setPermissions or chown is passed over.          *)
MakeFails_Ignored ==
  /\ making # NotMaking
  /\ Exists(making.path, making.level)
  /\ making' = IF making.level = Depth THEN NotMaking
               ELSE [making EXCEPT !.level = @ + 1]
  /\ UNCHANGED <<dirs, unmade>>

MakeFails ==
  /\ making # NotMaking
  /\ making' = NotMaking
  /\ unmade' = unmade \union {making.path}
  /\ UNCHANGED dirs

(* mkdir makes the directory; setPermissions and chown complete it.        *)
MakeStep ==
  LET path == making.path  level == making.level IN
  /\ making # NotMaking
  /\ \/ /\ ~Exists(path, level)
        /\ dirs' = [dirs EXCEPT ![path][level] = "made"]
        /\ UNCHANGED making
     \/ /\ Exists(path, level)
        /\ dirs' = [dirs EXCEPT ![path][level] = "complete"]
        /\ making' = IF level = Depth THEN NotMaking
                     ELSE [making EXCEPT !.level = level + 1]
  /\ UNCHANGED unmade

-----------------------------------------------------------------------------
(* getDefaultGroupPath.  /usr/bin/getprop (external) prints the value and  *)
(* a newline, of a property that is not set the newline alone; when it     *)
(* cannot be run there is no output.  Of an output only whether it is      *)
(* empty and what atoi makes of it is kept.                                *)

Unset == 0
Outputs(value) == {[empty |-> FALSE, atoi |-> value], [empty |-> TRUE, atoi |-> 0]}

PathOfLevel(level) == IF level <= 27 THEN LegacyPath ELSE VendorPath

getDefaultGroupPath(first, sdk) ==
  PathOfLevel(IF first.empty THEN sdk.atoi ELSE first.atoi)
=============================================================================
