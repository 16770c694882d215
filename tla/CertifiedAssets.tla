--------------------------- MODULE CertifiedAssets ---------------------------
(***************************************************************************)
(* The web pages that the backend serves, and their certification          *)
(* (rs/backend/src/assets.rs, main.rs).  A file may be served at several   *)
(* paths: a compressed file also without its suffix .gz, and an index.html *)
(* also as its directory.  The canister certifies a hash for each of these *)
(* paths when the file is inserted; what it serves at a path it looks up   *)
(* when it is asked, the other way round.  The files come from two sources:*)
(* the bundle in the installed version, where build-frontend.sh compresses *)
(* every file, and files from a list which anybody may upload and which    *)
(* alone survive an upgrade.                                               *)
(*                                                                         *)
(* A path is a root, a suffix and whether .gz comes after it; the root     *)
(* ends with none of the suffixes.  A hash is the contents it is of.       *)
(***************************************************************************)
EXTENDS FiniteSets

CONSTANTS
    Roots,
    Bundles,        \* the possible files of assets.tar.xz: contents by path
    Uploads,        \* the files that add_stable_asset accepts: contents by path
    Arguments,      \* CanisterArguments of an installation or an upgrade
    PlainText       \* a file into which no arguments go

Path == [root : Roots, suffix : {"", "/", "/index.html"}, gz : BOOLEAN]

VARIABLES
    assets,     \* what each path in the database holds: [bytes, args, stable]
    hashes,     \* asset_hashes: the hashed [bytes, args] at each path
    certified,  \* what the certified data is the root hash of
    arguments,  \* CANISTER_ARGUMENTS
    bundle      \* the bundle of the installed version

assetVars == <<assets, hashes, certified, arguments, bundle>>

-----------------------------------------------------------------------------
(***************************************************************************)
(* Paths.                                                                  *)
(***************************************************************************)
Compressed(p) == [p EXCEPT !.gz = TRUE]
Uncompressed(p) == [p EXCEPT !.gz = FALSE]
IsIndex(p) == p.suffix = "/index.html"

\* Mutant of AlternatePaths: an index.html is not certified as its directory.
CompressedPaths(p) == {p, Uncompressed(p)}

\* alternate_paths: where a file may be served, so the paths that are certified for it.
AlternatePaths(p) ==
    {p, Uncompressed(p)} \cup
    {[Uncompressed(p) EXCEPT !.suffix = s] : s \in IF IsIndex(p) THEN {"", "/"} ELSE {}}

\* The index that SUFFIX_REWRITES lets stand for a path.
IndexOf(p) ==
    IF p.gz \/ IsIndex(p) THEN {} ELSE {[p EXCEPT !.suffix = "/index.html"]}

\* get_with_encoding, for each of CONTENT_ENCODINGS, and get: the file that is served at a
\* path, if there is one.
WithEncoding(files, p) == IF Compressed(p) \in files THEN {Compressed(p)} ELSE {p} \cap files
Get(files, p) ==
    IF WithEncoding(files, p) # {} THEN WithEncoding(files, p)
    ELSE UNION {WithEncoding(files, i) : i \in IndexOf(p)}

\* No two of the files are ever served at one path: the bundle has every file once, and none
\* of the uploads.  An upload is served at its own path only.
Disjoint(files) ==
    \A p, q \in files : p # q => AlternatePaths(p) \cap AlternatePaths(q) = {}

ASSUME CertifiedAssetsAssumption ==
    /\ PlainText \notin Arguments
    /\ \A b \in Bundles :
        /\ DOMAIN b \subseteq Path /\ \A p \in DOMAIN b : p.gz
        /\ Disjoint(DOMAIN b \cup DOMAIN Uploads)
    /\ DOMAIN Uploads \subseteq Path
    /\ \A p \in DOMAIN Uploads : ~p.gz /\ ~IsIndex(p)

-----------------------------------------------------------------------------
(***************************************************************************)
(* The database and the certificates.                                      *)
(***************************************************************************)
Hash(asset) == [bytes |-> asset.bytes, args |-> asset.args]

\* A function with what g says where it is defined, and what f says elsewhere.
Over(f, g) == [p \in DOMAIN f \cup DOMAIN g |-> IF p \in DOMAIN g THEN g[p] ELSE f[p]]

\* insert_asset_into_state, for each of the new assets: every alternate path is hashed.
Hashed(new) ==
    [q \in UNION {AlternatePaths(p) : p \in DOMAIN new} |->
        Hash(new[CHOOSE p \in DOMAIN new : q \in AlternatePaths(p)])]

\* What insert_tar_xz makes of a bundle: the arguments go into the pages named index.html.
Templated(b, args) ==
    [p \in DOMAIN b |->
        [bytes |-> b[p], args |-> IF IsIndex(p) THEN args ELSE PlainText, stable |-> FALSE]]

\* init_assets, over what the database has, and update_root_hash.
InitAssets(stable, stableHashes, b, args) ==
    LET new == Templated(b, args)
    IN  /\ assets' = Over(stable, new)
        /\ hashes' = Over(stableHashes, Hashed(new))
        /\ certified' = hashes'

\* add_stable_asset: whoever calls it brings a file of the list (insert_asset).
AddStableAsset(p) ==
    LET new == [q \in {p} |-> [bytes |-> Uploads[p], args |-> PlainText, stable |-> TRUE]]
    IN  /\ assets' = Over(assets, new)
        /\ hashes' = Over(hashes, Hashed(new))
        /\ certified' = hashes'
        /\ UNCHANGED <<arguments, bundle>>

\* pre_upgrade encodes the stable assets, and post_upgrade hashes each at its own path before
\* it adds the bundle of the new version, with the new arguments.
UpgradeAssets(b, args) ==
    LET kept == {p \in DOMAIN assets : assets[p].stable}
    IN  /\ InitAssets([p \in kept |-> assets[p]], [p \in kept |-> Hash(assets[p])], b, args)
        /\ arguments' = args /\ bundle' = b

Install ==
    \E b \in Bundles, args \in Arguments :
        /\ assets = Templated(b, args)
        /\ hashes = Hashed(Templated(b, args))
        /\ certified = hashes
        /\ arguments = args /\ bundle = b

NextAssets ==
    \/ \E p \in DOMAIN Uploads : AddStableAsset(p)
    \/ \E b \in Bundles, args \in Arguments : UpgradeAssets(b, args)

SpecAssets == Install /\ [][NextAssets]_assetVars

-----------------------------------------------------------------------------
(***************************************************************************)
(* Properties.                                                             *)
(***************************************************************************)

\* http_request answers with a file or with 404, and with the witness of the path it was asked
\* for. Whatever was uploaded and whichever versions were installed, the answer is what the
\* certificate says: the hash at this path is that of the file, or there is none.
ServedIsCertified ==
    /\ certified = hashes
    /\ \A p \in Path :
        LET file == Get(DOMAIN assets, p)
        IN  /\ file = {} <=> p \notin DOMAIN hashes
            /\ \A f \in file : hashes[p] = Hash(assets[f])

\* What is served is of the installed version and shows its arguments; of older versions only
\* uploads are left.
NothingIsStale ==
    \A p \in DOMAIN assets :
        IF assets[p].stable THEN p \in DOMAIN Uploads /\ assets[p].bytes = Uploads[p]
        ELSE /\ p \in DOMAIN bundle /\ assets[p].bytes = bundle[p]
             /\ IsIndex(p) => assets[p].args = arguments

\* Both: what is certified is what is served, and it is what was installed and uploaded.
AssetsAreSound == ServedIsCertified /\ NothingIsStale
=============================================================================
