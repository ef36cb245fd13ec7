---------------------------- MODULE ConfigStore -----------------------------
(***************************************************************************)
(* The Xlink library's configuration in flash: user_write_config and       *)
(* user_read_config of app/user/user_net.c.                                *)
(*                                                                         *)
(* A write copies its data over the start of the RAM buffer                *)
(* auth_pwd_name_buf, erases the only sector and programs the whole buffer *)
(* into it, word by word; a read loads the buffer from flash and returns   *)
(* its start.  The buffer is zero after a restart.  Power may fail between *)
(* any two steps.                                                          *)
(*                                                                         *)
(* A word is the number of the write it comes from: 0 is the zeroed RAM,   *)
(* ErasedWord the erased flash.                                            *)
(***************************************************************************)
EXTENDS Integers, Sequences

CONSTANTS
  Words,       \* sizeof(auth_pwd_name_buf), in words
  MaxWrites    \* bound on the writes

StoreAssumption == Words \in Nat \ {0} /\ MaxWrites \in Nat

VARIABLES
  auth_pwd_name_buf,
  flash,       \* the sector PRIV_PARAM_START_SECTOR
  step,        \* "idle", "erase", or "program" from the word on
  word,
  writes       \* the number of writes begun

(* History, used by the properties only. *)
VARIABLES
  saved,       \* for each word, the last write that covered it
  cut,         \* power failed during a write, and no write has ended since
  warm,        \* since the restart the buffer has been read from flash
  patchy,      \* a short write began on a buffer that was not warm, or on a
               \* damaged sector, and no whole write has since
  before,      \* the sector when the last write began ...
  image        \* ... and the buffer that write programs

storeVars == <<auth_pwd_name_buf, flash, step, word, writes, saved, cut, warm,
          patchy, before, image>>

ErasedWord == -1
WordIndex == 1 .. Words

\* A device from the factory: the sector is erased.
StoreInit ==
  /\ auth_pwd_name_buf = [i \in WordIndex |-> 0]
  /\ flash = [i \in WordIndex |-> ErasedWord]
  /\ step = "idle" /\ word = 1 /\ writes = 0
  /\ saved = flash /\ before = flash /\ image = auth_pwd_name_buf
  /\ cut = FALSE /\ warm = FALSE /\ patchy = FALSE

\* xlink_memcpy( auth_pwd_name_buf, data, datalen )
Over(buf, w, n) == [i \in WordIndex |-> IF i <= n THEN w ELSE buf[i]]

user_write_configInPlace(n) ==
  /\ step = "idle" /\ writes < MaxWrites
  /\ writes' = writes + 1
  /\ auth_pwd_name_buf' = Over(auth_pwd_name_buf, writes', n)
  /\ saved' = Over(saved, writes', n)
  /\ patchy' = (n # Words /\ (patchy \/ cut \/ ~ warm))
  /\ before' = flash /\ image' = auth_pwd_name_buf'
  /\ step' = "program"
  /\ UNCHANGED <<flash, word, cut, warm>>

\* user_write_config with n words of data, up to the erase ...
user_write_config(n) ==
  /\ step = "idle" /\ writes < MaxWrites
  /\ writes' = writes + 1
  /\ auth_pwd_name_buf' = Over(auth_pwd_name_buf, writes', n)
  /\ saved' = Over(saved, writes', n)
  /\ patchy' = (n # Words /\ (patchy \/ cut \/ ~ warm))
  /\ before' = flash /\ image' = auth_pwd_name_buf'
  /\ step' = "erase"
  /\ UNCHANGED <<flash, word, cut, warm>>

\* ... spi_flash_erase_sector ...
EraseSector ==
  /\ step = "erase"
  /\ flash' = [i \in WordIndex |-> ErasedWord]
  /\ step' = "program"
  /\ word' = 1
  /\ UNCHANGED <<auth_pwd_name_buf, writes, saved, cut, warm, patchy, before,
                 image>>

\* ... and one word of spi_flash_write, which always writes the whole buffer.
Program ==
  /\ step = "program"
  /\ flash' = [flash EXCEPT ![word] = auth_pwd_name_buf[word]]
  /\ step' = IF word = Words THEN "idle" ELSE "program"
  /\ word' = IF word = Words THEN 1 ELSE word + 1
  /\ cut' = (cut /\ word # Words)
  /\ UNCHANGED <<auth_pwd_name_buf, writes, saved, warm, patchy, before,
                 image>>

\* user_read_config: the whole sector is read, whatever bufferlen is.
user_read_config ==
  /\ step = "idle"
  /\ auth_pwd_name_buf' = flash
  /\ warm' = TRUE
  /\ UNCHANGED <<flash, step, word, writes, saved, cut, patchy, before,
                 image>>

\* Power fails, or the watchdog bites: RAM is lost, the flash stays.
PowerLost ==
  /\ auth_pwd_name_buf' = [i \in WordIndex |-> 0]
  /\ step' = "idle" /\ word' = 1
  /\ cut' = (cut \/ step # "idle")
  /\ warm' = FALSE
  /\ UNCHANGED <<flash, writes, saved, patchy, before,
                 image>>

StoreNext ==
  \/ \E n \in WordIndex : user_write_config(n)
  \/ EraseSector
  \/ Program
  \/ user_read_config
  \/ PowerLost

StoreSpec == StoreInit /\ [][StoreNext]_storeVars

-----------------------------------------------------------------------------
(* Properties *)

Word == ErasedWord .. MaxWrites

\* Programming stays inside the buffer and the sector.
StoreTypeOK ==
  /\ auth_pwd_name_buf \in [WordIndex -> Word]
  /\ flash \in [WordIndex -> Word]
  /\ step \in {"idle", "erase", "program"}
  /\ word \in WordIndex
  /\ writes \in 0 .. MaxWrites
  /\ saved \in [WordIndex -> Word] /\ before \in [WordIndex -> Word]
  /\ image \in [WordIndex -> Word]
  /\ cut \in BOOLEAN /\ warm \in BOOLEAN /\ patchy \in BOOLEAN

\* What the last write saved can be read back, after any number of restarts,
\* unless power failed during that write; and a short write keeps the rest of
\* the sector as earlier writes left it, unless it came before the first read
\* after a restart (the buffer it programs then still holds zeroes) or found a
\* damaged sector.
LastWriteReadable ==
  (step = "idle" /\ ~ cut) =>
    /\ \A i \in WordIndex : (writes > 0 /\ saved[i] = writes) => flash[i] = writes
    /\ ~ patchy => flash = saved

\* A power failure during a write leaves the old sector, or a part of the
\* new one followed by erased words: never a mixture of old and new.
NeverMixed ==
  \/ flash = before
  \/ \E k \in 0 .. Words :
       flash = [i \in WordIndex |-> IF i <= k THEN image[i] ELSE ErasedWord]

\* What user_write_config saved can be read back, the rest of the sector is
\* kept, and a power failure never mixes an old and a new sector.
StoreSound == LastWriteReadable /\ NeverMixed
=============================================================================
