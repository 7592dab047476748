-------------------------------- MODULE Archive -------------------------------
(***************************************************************************)
(* Client-side encryption of archived recordings: saving the S3 settings   *)
(* (api/settings.go), uploading and opening objects (storage/s3.go) and the *)
(* seekable decryption of one (storage/crypto.go).  A key is a passphrase  *)
(* with a salt.  A byte of keystream is named by its counter block and its *)
(* place in the block; blocks and counters are a few digits wide here.     *)
(***************************************************************************)
EXTENDS Integers, Sequences, FiniteSets

CONSTANTS
  BlockSize,      \* aes.BlockSize
  Base, IVLen,    \* a counter block has IVLen digits below Base
  PlainSize,      \* bytes of the recording
  Phrases,        \* passphrases of the owner
  Savers,         \* settings requests at one time
  MaxSaves        \* bound: settings saved

ASSUME ArchiveAssumption ==
  {BlockSize, Base, IVLen, PlainSize, MaxSaves} \subseteq Nat \ {0} /\ Base > 1

NoPhrase == "none"
NoSalt   == 0
Plain    == [pass |-> NoPhrase, salt |-> NoSalt]
Shut     == [pos |-> -1, aligned |-> FALSE, src |-> 0, from |-> <<>>, used |-> 0, iv |-> <<>>]

VARIABLES
  s3,       \* the stored settings: [enabled, pass, salt]
  saver,    \* per request: [at, was, now]: the settings it read and those it writes
  saves,    \* settings saved so far
  salts,    \* salts minted so far
  object,   \* the archived recording: its key, Plain, or NoObject
  reader,   \* the open object's ctrDecryptor, or Shut
  got,      \* what the last Read returned: [at, src, mask] per byte
  spoiled   \* history: saves overlapped, or one could not read the settings

archiveVars == <<s3, saver, saves, salts, object, reader, got, spoiled>>

NoObject == [pass |-> "no object", salt |-> NoSalt]
Idle     == [at |-> "idle", was |-> [enabled |-> FALSE, pass |-> NoPhrase, salt |-> NoSalt],
             now |-> [enabled |-> FALSE, pass |-> NoPhrase, salt |-> NoSalt]]

ArchiveInit ==
  /\ s3 = [enabled |-> FALSE, pass |-> NoPhrase, salt |-> NoSalt]
  /\ saver = [r \in Savers |-> Idle]
  /\ saves = 0 /\ salts = 0
  /\ object = NoObject /\ reader = Shut /\ got = <<>>
  /\ spoiled = FALSE

-----------------------------------------------------------------------------
(* handleSetS3 reads what is stored; an error leaves it empty-handed.       *)
ReadS3(r) ==
  /\ saver[r].at = "idle" /\ saves < MaxSaves
  /\ saves' = saves + 1
  /\ \E was \in {s3, Idle.was} : \E enabled \in BOOLEAN : \E pass \in Phrases \cup {NoPhrase} :
       /\ saver' = [saver EXCEPT ![r] = [at |-> "save", was |-> was,
            now |-> [enabled |-> enabled, pass |-> IF pass = NoPhrase THEN was.pass ELSE pass, salt |-> was.salt]]]
       /\ spoiled' = (spoiled \/ was # s3 \/ \E q \in Savers : saver[q].at # "idle")
  /\ UNCHANGED <<s3, salts, object, reader, got>>

(* The salt is minted once, and stays.                                      *)
SaveS3(r) ==
  LET now   == saver[r].now
      mints == now.enabled /\ now.salt = NoSalt
  IN /\ saver[r].at = "save"
     /\ s3' = IF mints THEN [now EXCEPT !.salt = salts + 1] ELSE now
     /\ salts' = IF mints THEN salts + 1 ELSE salts
     /\ saver' = [saver EXCEPT ![r] = Idle]
     /\ UNCHANGED <<saves, object, reader, got, spoiled>>

SaveFails(r) ==
  /\ saver[r].at = "save"
  /\ saver' = [saver EXCEPT ![r] = Idle]
  /\ UNCHANGED <<s3, saves, salts, object, reader, got, spoiled>>

-----------------------------------------------------------------------------
(* NewUploader: encryption needs a passphrase.                              *)
Usable == s3.enabled => s3.pass # NoPhrase
CipherKey    == IF s3.enabled THEN [pass |-> s3.pass, salt |-> s3.salt] ELSE Plain

Upload ==
  /\ object = NoObject /\ Usable
  /\ object' = CipherKey
  /\ UNCHANGED <<s3, saver, saves, salts, reader, got, spoiled>>

(* Open: an encrypted object needs encryption to be on; nothing tells a     *)
(* wrong key.  Only what the right key reads is followed here.              *)
Open ==
  /\ reader = Shut /\ object \notin {NoObject, Plain} /\ Usable /\ CipherKey = object
  /\ \E iv \in [1..IVLen -> 0..Base - 1] : reader' = [Shut EXCEPT !.pos = 0, !.iv = iv]
  /\ UNCHANGED <<s3, saver, saves, salts, object, got, spoiled>>

-----------------------------------------------------------------------------
addBENoCarry(iv, add) == \* mutant: the carry out of a digit is lost
  LET left[n \in 0..IVLen] == IF n = 0 THEN add ELSE left[n - 1] \div Base
  IN [i \in 1..IVLen |-> (iv[i] + (left[IVLen - i] % Base)) % Base]

(* iv + add, digit by digit from the last; left[n] is what is left to add   *)
(* after n digits.                                                          *)
addBE(iv, add) ==
  LET left[n \in 0..IVLen] ==
        IF n = 0 THEN add
        ELSE (left[n - 1] \div Base) + ((iv[IVLen + 1 - n] + (left[n - 1] % Base)) \div Base)
  IN [i \in 1..IVLen |-> (iv[i] + (left[IVLen - i] % Base)) % Base]

(* CTR mode: the k-th byte of the keystream that begins at a counter, which *)
(* wraps after the highest one.                                             *)
Value(iv) == LET v[n \in 0..IVLen] == IF n = 0 THEN 0 ELSE v[n - 1] * Base + iv[n] IN v[IVLen]
Turn      == Value([i \in 1..IVLen |-> Base - 1]) + 1
Mask(iv, k) == [block |-> (Value(iv) + (k \div BlockSize)) % Turn, at |-> k % BlockSize]

alignStream(d) == [d EXCEPT !.src = d.pos, !.from = addBE(d.iv, d.pos \div BlockSize),
                      !.used = d.pos % BlockSize, !.aligned = TRUE]

(* A read gives what the source has at hand.                                *)
ReadObject(n) ==
  LET d == IF reader.aligned THEN reader ELSE alignStream(reader)
  IN /\ reader # Shut /\ reader.pos + n <= PlainSize
     /\ got' = [k \in 1..n |-> [at |-> d.pos + k - 1, src |-> d.src + k - 1, mask |-> Mask(d.from, d.used + k - 1)]]
     /\ reader' = [d EXCEPT !.pos = @ + n, !.src = @ + n, !.used = @ + n]
     /\ UNCHANGED <<s3, saver, saves, salts, object, spoiled>>

(* Wherever from: start, position or end; a position past the end is fine.  *)
SeekObject(to) ==
  /\ reader # Shut
  /\ reader' = [reader EXCEPT !.pos = to, !.aligned = FALSE]
  /\ UNCHANGED <<s3, saver, saves, salts, object, got, spoiled>>

ArchiveNext ==
  \/ \E r \in Savers : ReadS3(r) \/ SaveS3(r) \/ SaveFails(r)
  \/ Upload \/ Open
  \/ \E n \in 1..PlainSize : ReadObject(n)
  \/ \E to \in 0..PlainSize : SeekObject(to)

-----------------------------------------------------------------------------
ArchiveTypeOK ==
  /\ s3.salt \in 0..salts /\ (s3.enabled => s3.salt # NoSalt)
  /\ reader = Shut \/ reader.pos \in 0..PlainSize

(* A recording reads as it was written, wherever the player jumps and       *)
(* however short the reads are: each byte returned is the one asked for,    *)
(* under the mask it was encrypted with, the counter wrapping included      *)
(* (crypto.go).                                                             *)
BytesRead == \A k \in DOMAIN got : got[k].src = got[k].at /\ got[k].mask = Mask(reader.iv, got[k].at)

(* "the salt ... must not change once recordings have been encrypted with   *)
(* it" (settings.go 65-67): it does not, unless two saves overlap or one    *)
(* fails to read what is stored.                                            *)
SaltStays == object.salt # NoSalt /\ ~spoiled => s3.salt = object.salt

(* What is archived can be read back.                                       *)
ArchiveReadable == BytesRead /\ SaltStays
=============================================================================
