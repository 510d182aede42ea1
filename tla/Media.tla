-------------------------------- MODULE Media --------------------------------
(***************************************************************************)
(* Attachments (packages/client/src/media, apps/mobile/src/media): encrypt *)
(* under a fresh key, presign with the directory's access token, put the   *)
(* ciphertext into an object store nobody trusts, and the way back.        *)
(*                                                                         *)
(* The client is that of Tokens; an item is one attachment.  AES-GCM and   *)
(* SHA-256 are ideal: a ciphertext opens under its own key only and to its *)
(* own plaintext, a digest names one plaintext.  Bytes are a member of     *)
(* Data; file name, MIME type and size are left out.                       *)
(***************************************************************************)
EXTENDS Tokens

CONSTANTS
    Items,  \* bound: attachments; also their keys and the locators of their objects
    Data    \* bound: plaintexts

ASSUME MediaAssumption ==
    /\ None \notin Items \union Data
    /\ None \notin [key : Items, sha256 : Data, locator : Items]

VARIABLES
    attached,  \* item -> the bytes its sender picked, or None
    up,        \* item -> its uploadMedia
    ref,       \* item -> the MediaReference in the message body, or None
    store,     \* locator -> the object under it, or None
    down,      \* item -> its downloadMedia
    shown      \* item -> the bytes a recipient was shown, or None

mediaVars == <<attached, up, ref, store, down, shown>>
vars == <<tokenVars, mediaVars>>

\* A stored object: a ciphertext under a key, or, under no key, anything else.
Objects == [key : Items \union {None}, bytes : Data]
Reference == [key : Items, sha256 : Data, locator : Items]
NoJob == [at |-> "idle", bearer |-> None]
Job == [at : {"idle", "encrypt", "presign", "transfer"}, bearer : Token \union {None}]

Init ==
    /\ TokensInit
    /\ attached = [i \in Items |-> None]
    /\ up = [i \in Items |-> NoJob]
    /\ ref = [i \in Items |-> None]
    /\ store = [l \in Items |-> None]
    /\ down = [i \in Items |-> NoJob]
    /\ shown = [i \in Items |-> None]

\* Mutant of EncryptMedia: the digest is not filled in.
EncryptMediaUndigested(i, bytes) ==
    [ciphertext |-> [key |-> i, bytes |-> bytes],
     keyMaterial |-> [key |-> i, sha256 |-> None]]

\* encryptMedia: the ciphertext and the key material, under the item's own key.
EncryptMedia(i, bytes) ==
    [ciphertext |-> [key |-> i, bytes |-> bytes],
     keyMaterial |-> [key |-> i, sha256 |-> bytes]]

\* Mutant of DecryptMedia: the tag and the digest are not looked at.
DecryptMediaUnchecked(r, o) == o.bytes

\* decryptMedia: the tag holds under the reference's key only, then the digest.
DecryptMedia(r, o) ==
    IF o.key = r.key /\ o.bytes = r.sha256 THEN o.bytes ELSE None

-----------------------------------------------------------------------------
Presign == [at |-> "presign", bearer |-> token]

\* The user picks a file: uploadMedia begins to encrypt it.
PickMedia(i, bytes) ==
    /\ user # None /\ attached[i] = None
    /\ attached' = [attached EXCEPT ![i] = bytes]
    /\ up' = [up EXCEPT ![i] = [at |-> "encrypt", bearer |-> None]]
    /\ UNCHANGED <<tokenVars, ref, store, down, shown>>

\* It is encrypted: uploadMedia asks for a URL, with the token of this moment.
Encrypted(i) ==
    /\ up[i].at = "encrypt"
    /\ up' = [up EXCEPT ![i] = Presign]
    /\ UNCHANGED <<tokenVars, attached, ref, store, down, shown>>

\* uploadUrl: no refresh and no retry on a 401.
UploadUrl(i) ==
    /\ up[i].at = "presign"
    /\ up' = [up EXCEPT ![i] = IF Authorized(up[i].bearer)
                               THEN [at |-> "transfer", bearer |-> None] ELSE NoJob]
    /\ UNCHANGED <<tokenVars, attached, ref, store, down, shown>>

\* The PUT: the reference exists only once the object does.
Put(i) ==
    /\ up[i].at = "transfer"
    /\ up' = [up EXCEPT ![i] = NoJob]
    /\ LET enc == EncryptMedia(i, attached[i])
       IN  /\ store' = [store EXCEPT ![i] = enc.ciphertext]
           /\ ref' = [ref EXCEPT ![i] = [key |-> enc.keyMaterial.key,
                                         sha256 |-> enc.keyMaterial.sha256, locator |-> i]]
    /\ UNCHANGED <<tokenVars, attached, down, shown>>

\* The encryption, the presign or the PUT fails; the object may be there all the same.
UploadFails(i) ==
    /\ up[i] # NoJob
    /\ up' = [up EXCEPT ![i] = NoJob]
    /\ store' \in {store} \union
        IF up[i].at # "transfer" THEN {}
        ELSE {[store EXCEPT ![i] = EncryptMedia(i, attached[i]).ciphertext]}
    /\ UNCHANGED <<tokenVars, attached, ref, down, shown>>

\* downloadMedia, by whoever has the reference.
Download(i) ==
    /\ ref[i] # None /\ down[i] = NoJob
    /\ down' = [down EXCEPT ![i] = Presign]
    /\ UNCHANGED <<tokenVars, attached, up, ref, store, shown>>

DownloadUrl(i) ==
    /\ down[i].at = "presign"
    /\ down' = [down EXCEPT ![i] = IF Authorized(down[i].bearer)
                                   THEN [at |-> "transfer", bearer |-> None] ELSE NoJob]
    /\ UNCHANGED <<tokenVars, attached, up, ref, store, shown>>

\* The GET and the decryption; a failure shows nothing.
Get(i) ==
    /\ down[i].at = "transfer" /\ store[ref[i].locator] # None
    /\ down' = [down EXCEPT ![i] = NoJob]
    /\ LET bytes == DecryptMedia(ref[i], store[ref[i].locator])
       IN  shown' = IF bytes = None THEN shown ELSE [shown EXCEPT ![i] = bytes]
    /\ UNCHANGED <<tokenVars, attached, up, ref, store>>

DownloadFails(i) ==
    /\ down[i] # NoJob
    /\ down' = [down EXCEPT ![i] = NoJob]
    /\ UNCHANGED <<tokenVars, attached, up, ref, store, shown>>

\* The store loses an object, damages it, or gives out another one.
Corrupt(l) ==
    /\ store[l] # None
    /\ \E o \in {store[k] : k \in Items} \union [key : {None}, bytes : Data] \union {None} :
        store' = [store EXCEPT ![l] = o]
    /\ UNCHANGED <<tokenVars, attached, up, ref, down, shown>>

MediaNext ==
    \E i \in Items :
        \/ \E bytes \in Data : PickMedia(i, bytes)
        \/ Encrypted(i) \/ UploadUrl(i) \/ Put(i) \/ UploadFails(i)
        \/ Download(i) \/ DownloadUrl(i) \/ Get(i) \/ DownloadFails(i)
        \/ Corrupt(i)

Next == (TokensNext /\ UNCHANGED mediaVars) \/ MediaNext

Spec == Init /\ [][Next]_vars /\ TokensFairness

-----------------------------------------------------------------------------
(* Properties.                                                             *)

\* The tokens, the jobs, the references and the stored objects have their types.
TypeOK ==
    /\ TokensTypeOK
    /\ attached \in [Items -> Data \union {None}]
    /\ up \in [Items -> Job] /\ down \in [Items -> Job]
    /\ ref \in [Items -> Reference \union {None}]
    /\ store \in [Items -> Objects \union {None}]
    /\ shown \in [Items -> Data \union {None}]

\* What attachments promise their users, without keys, storage or tokens.
Promise == INSTANCE MediaPromise WITH attached <- attached, shown <- shown

\* Whatever the store does and whichever steps fail or repeat, an attachment is
\* shown as what its sender picked, or not at all: the component implements its
\* abstract specification.
KeepsPromise == Promise!Spec
=============================================================================
