------------------------------- MODULE AoeTag -------------------------------
(***************************************************************************)
(* The tags of AoE commands: 32 bits that a target returns with its        *)
(* answer.  The driver and the user programs of this host share the tag    *)
(* space; the top bit tells them apart.  A tag is the pair of its halves   *)
(* <<hi, lo>>, of 16 bits each.                                            *)
(***************************************************************************)
EXTENDS Integers

Half == 2 ^ 16
Top == 2 ^ 15
Tag == (0..(Half - 1)) \X (0..(Half - 1))

\* newtag: lasttag counts the commands of a device, and the low half holds
\* jiffies.
NewTag(lasttag, jiffies) == <<lasttag % Top, jiffies % Half>>

\* tsince: the age of a tag in jiffies, at least one.
Tsince(tag, jiffies) ==
    LET n == (jiffies % Half) - tag[2]
    IN (IF n < 0 THEN n + Half ELSE n) + 1

\* aoenet_rcv takes an answer only when the top bit of its tag is clear.
ForDriver(tag) == tag[1] < Top

\* aoeping: the tag of the option with the top bit set, and one more for every
\* command, in 32 bits.
PingTagClear(start, k) ==
    <<(start[1] + (start[2] + k) \div Half) % Half, (start[2] + k) % Half>>
PingTag(start, k) ==
    <<((start[1] % Top) + Top + (start[2] + k) \div Half) % Half,
      (start[2] + k) % Half>>

\* The microseconds of gettimeofday.
Usec == 0..(10 ^ 6 - 1)

\* aoecfg: the microseconds of the clock with the top bit set.
CfgTag(usec) == <<Top + usec \div Half, usec % Half>>

\* aoe-sancheck: 1<<31 for its queries; for its probes the number of the path,
\* which is 0x8000 | id, and the number of sectors of the frame.
DiscoverTag == <<Top, 0>>
PathNr(id) == IF (id \div Top) % 2 = 0 THEN Top + id ELSE id
ProbeTag(id, n) == <<PathNr(id) % Half, n>>
=============================================================================
