----------------------------- MODULE SrecLoader -----------------------------
(***************************************************************************)
(* S-record boot over the UART: the character machine of kk_srec.c and the *)
(* callback srec_data_read and loop boot_srec_uart of boot_code.c.  A host *)
(* sends the lines of a file one character after the other; a character    *)
(* may get lost, because uart_read_char empties a receive FIFO that has    *)
(* overflowed while the loader was echoing.                                *)
(***************************************************************************)
EXTENDS Integers, Sequences, FiniteSets

CONSTANTS MAX,          \* SREC_LINE_MAX_BYTE_COUNT (37)
          Top,          \* bound: memory addresses
          Files,        \* the files a host may send: sequences of records
          MaxLost       \* bound: characters lost

VARIABLES
  file, text,    \* what the host sends: its records and their lines
  k, j,          \* the line and the place that it has come to
  lost,          \* places of lost characters
  srec,          \* struct srec_state; flags as type and state
  call,          \* the call of srec_data_read for this character, if any
  complaints,    \* lines during which the loader has printed an error
  mem, target    \* memory; where the core has jumped to
vars == <<file, text, k, j, lost, srec, call, complaints, mem, target>>

Addresses == 0 .. Top
Nowhere == -1
NoCall == [type |-> Nowhere]

\* Characters: the value of a hexadecimal digit, 'S', or any other.
S == 16
Other == 17

Sum(bytes) ==
  LET upTo[n \in 0 .. Len(bytes)] == IF n = 0 THEN 0 ELSE upTo[n - 1] + bytes[n]
  IN  upTo[Len(bytes)]
Nibbles(bytes) ==
  [n \in 1 .. 2 * Len(bytes) |-> IF n % 2 = 1 THEN bytes[(n + 1) \div 2] \div 16
                                              ELSE bytes[n \div 2] % 16]

-----------------------------------------------------------------------------
(* kk_srec.c.                                                              *)

IsData(type)        == type \in 1 .. 3
IsTermination(type) == type >= 7
AddressByteCount(type) == 2 + (IF type % 2 = 1 \/ type = 0 THEN 2 * ((type \div 2) % 2) ELSE 1)

Count(r) == AddressByteCount(r.type) + Len(r.data) + 1
Weight   == <<1, 256, 65536, 16777216>>   \* of an address's bytes, from the last

\* What objcopy writes: records that fit a line, data that fits the memory, in ascending
\* order, and behind it the record with the entry.
WellFormed(f) ==
  /\ f \in Seq([type : 0 .. 9, address : Nat, data : Seq(0 .. 255)]) /\ f # <<>>
  /\ \A n \in 1 .. Len(f) :
       /\ Count(f[n]) <= MAX /\ f[n].address \div 256 < Weight[AddressByteCount(f[n].type)]
       /\ IsData(f[n].type) => f[n].address + Len(f[n].data) <= Top + 1
       /\ IsTermination(f[n].type) => f[n].address <= Top
       /\ IsTermination(f[n].type) <=> n = Len(f)
  /\ \A m, n \in 1 .. Len(f) : m < n /\ IsData(f[m].type) /\ IsData(f[n].type) =>
       f[m].address + Len(f[m].data) <= f[n].address

SrecAssumption ==
  /\ MAX \in 4 .. 254 /\ Top \in Nat /\ MaxLost \in Nat
  /\ Files # {} /\ \A f \in Files : WellFormed(f)

\* A record as a line: count, address, data and checksum, in digits.
Body(r) ==
  LET bytes == AddressByteCount(r.type)
  IN  <<Count(r)>> \o [n \in 1 .. bytes |-> (r.address \div Weight[bytes - n + 1]) % 256] \o r.data
Octets(r) == Append(Body(r), 255 - (Sum(Body(r)) % 256))
Line(r)   == <<S, r.type>> \o Nibbles(Octets(r)) \o <<Other>>

First(s, n) == [m \in 1 .. n |-> s.data[m - 1]]

\* Addresses of memory and those beyond, which are not told apart.
Address(bytes) ==
  LET upTo[n \in 0 .. Len(bytes)] ==
        IF n = 0 THEN 0 ELSE IF upTo[n - 1] > Top THEN upTo[n - 1] ELSE 256 * upTo[n - 1] + bytes[n]
  IN  upTo[Len(bytes)]

\* What srec_end_read gives to srec_data_read.
Record(s) ==
  LET bytes == AddressByteCount(s.type)
  IN  [type |-> s.type,
       address |-> Address(First(s, bytes)),
       data |-> IF s.length > bytes THEN SubSeq(First(s, s.length - 1), bytes + 1, s.length - 1)
                                    ELSE <<>>,
       complaint |-> \/ s.length # s.byte_count
                     \/ (s.length + Sum(First(s, s.length)) + 1) % 256 # 0]

Cleared(s) == [s EXCEPT !.state = "start", !.type = 0, !.length = 0, !.byte_count = 0]

\* Mutant: a record that is cut short is dropped.
EndReadWholeOnly(s) ==
  IF s.byte_count = 0 THEN [s |-> s, call |-> NoCall]
  ELSE [s |-> Cleared(s), call |-> IF s.length = s.byte_count THEN Record(s) ELSE NoCall]

\* srec_end_read; nothing happens to a record whose count is not known.
EndRead(s) == IF s.byte_count = 0 THEN [s |-> s, call |-> NoCall]
                                  ELSE [s |-> Cleared(s), call |-> Record(s)]

Silent(s) == [s |-> s, call |-> NoCall]
ThenState(r, state) == [r EXCEPT !.s.state = state]

\* A low digit is or-ed to data[length], outside a record too.
Low(s, c) ==
  LET Bit(n, b) == (n \div b) % 2
      New(old, b) == IF Bit(c, b) > Bit(old, b) THEN b ELSE 0
  IN  [s EXCEPT !.data[s.length] = @ + New(@, 1) + New(@, 2) + New(@, 4) + New(@, 8)]
High(s, c) == [s EXCEPT !.data[s.length] = 16 * c]

\* Mutant: a count that is too high is not refused.
GotCountUnchecked(s) ==
  LET t == [s EXCEPT !.byte_count = s.data[s.length]]
  IN  Silent([t EXCEPT !.state = "dataHigh"])

GotCount(s) ==
  LET t == [s EXCEPT !.byte_count = s.data[s.length]]
  IN  IF t.byte_count > MAX THEN EndRead(t) ELSE Silent([t EXCEPT !.state = "dataHigh"])

GotData(s) ==
  LET t == [s EXCEPT !.length = @ + 1]
  IN  IF t.length < t.byte_count THEN Silent([t EXCEPT !.state = "dataHigh"])
                                 ELSE ThenState(EndRead(t), "start")

Digit(s, c) ==
  CASE s.state = "start"     -> Silent(Low(s, c))
    [] s.state = "type"      -> Silent([s EXCEPT !.type = c, !.state = "countHigh"])
    [] s.state = "countHigh" -> Silent([High(s, c) EXCEPT !.state = "countLow"])
    [] s.state = "countLow"  -> GotCount(Low(s, c))
    [] s.state = "dataHigh"  -> Silent([High(s, c) EXCEPT !.state = "dataLow"])
    [] s.state = "dataLow"   -> GotData(Low(s, c))

srec_read_byte(s, c) ==
  CASE c = S     -> ThenState(EndRead(s), "type")
    [] c = Other -> Silent(s)
    [] OTHER     -> Digit(s, c)
-----------------------------------------------------------------------------
(* boot_code.c.                                                            *)

\* A little-endian word, of which the data is only the first byte.
StoreWord(m, address, byte) ==
  [a \in DOMAIN m |-> IF a = address THEN byte
                      ELSE IF a \in address + 1 .. address + 3 THEN 0 ELSE m[a]]

\* Mutant: the bytes are stored from the last to the first.
StoreBackwards(m, r) ==
  LET L == Len(r.data)
      after[n \in 0 .. L] ==
        IF n = 0 THEN m ELSE StoreWord(after[n - 1], r.address + L - n, r.data[L - n + 1])
  IN  after[L]

Store(m, r) ==
  LET after[n \in 0 .. Len(r.data)] ==
        IF n = 0 THEN m ELSE StoreWord(after[n - 1], r.address + n - 1, r.data[n])
  IN  after[Len(r.data)]

\* srec_data_read: an error is printed, and the record used all the same.
srec_data_read(r) ==
  /\ call' = r
  /\ complaints' = IF r # NoCall /\ r.complaint THEN complaints \union {k} ELSE complaints
  /\ mem' = IF IsData(r.type) THEN Store(mem, r) ELSE mem
  /\ target' = IF IsTermination(r.type) THEN r.address ELSE target

Char == text[k][j]
Advance == IF j < Len(text[k]) THEN j' = j + 1 /\ k' = k ELSE j' = 1 /\ k' = k + 1
Sending == target = Nowhere /\ k <= Len(file)

\* boot_srec_uart: a character is read, echoed and given to the machine.
ReadChar ==
  /\ Sending
  /\ LET r == srec_read_byte(srec, Char) IN srec' = r.s /\ srec_data_read(r.call)
  /\ Advance
  /\ UNCHANGED <<file, text, lost>>

Lose ==
  /\ Sending /\ Cardinality(lost) < MaxLost
  /\ lost' = lost \union {<<k, j>>} /\ call' = NoCall
  /\ Advance
  /\ UNCHANGED <<file, text, srec, complaints, mem, target>>

Old == -2   \* what was in memory before

\* srec_begin_read, which leaves the data as the stack has it.
BeginRead(garbage) ==
  /\ srec = [state |-> "start", type |-> 0, byte_count |-> 0, length |-> 0,
             data |-> [n \in 0 .. MAX |-> garbage]]
  /\ text = [n \in 1 .. Len(file) |-> Line(file[n])] /\ k = 1 /\ j = 1 /\ lost = {}
  /\ call = NoCall /\ complaints = {}
  /\ mem = [a \in Addresses |-> Old] /\ target = Nowhere
Init == file \in Files /\ \E garbage \in {0, 255} : BeginRead(garbage)

Next == ReadChar \/ Lose

\* The host sends its file to the end.
Fairness == WF_vars(Next)
Spec == Init /\ [][Next]_vars /\ Fairness
-----------------------------------------------------------------------------
(* Properties.                                                             *)

\* Every variable has its type; above all, with up to MaxLost characters lost, no
\* character makes the machine write behind the MAX + 1 bytes of its data array.
TypeOK ==
  /\ file \in Files /\ k \in 1 .. Len(file) + 1 /\ j \in Nat \ {0}
  /\ Cardinality(lost) <= MaxLost /\ complaints \subseteq 1 .. Len(file)
  /\ srec.state \in {"start", "type", "countHigh", "countLow", "dataHigh", "dataLow"}
  /\ srec.type \in 0 .. 15 /\ srec.byte_count \in 0 .. MAX /\ srec.length \in 0 .. MAX
  /\ DOMAIN srec.data = 0 .. MAX /\ \A n \in 0 .. MAX : srec.data[n] \in 0 .. 255
  /\ \A a \in Addresses : mem[a] \in 0 .. 255 \union {Old}

DataRecords == {n \in 1 .. Len(file) : IsData(file[n].type)}

\* All data of the file is at its addresses, though each byte is stored as a word whose
\* other three bytes hit what follows, and the core has jumped to the file's entry.
Loaded ==
  /\ \A n \in DataRecords : \A m \in 1 .. Len(file[n].data) :
       mem[file[n].address + m - 1] = file[n].data[m]
  /\ target = file[Len(file)].address

\* A file that arrives whole is loaded, and without an error message.
WholeFileLoaded == target # Nowhere /\ lost = {} => Loaded /\ complaints = {}

\* A program that was loaded with a hole or in a wrong place is one the host was told of,
\* as long as the start, the type and the count of each record arrive.
DamageReported ==
  target # Nowhere /\ (\A p \in lost : p[2] > 4) /\ complaints = {} => Loaded

\* The comment of srec_read_byte, "sync to a new record at any state": a record that
\* arrives whole is handed over as it is, whatever happened to the records before.
Resynchronises ==
  [][ \A n \in DataRecords :
        (k = n /\ j = Len(text[n]) - 1 /\ k' = n /\ \A p \in lost' : p[1] # n)
        => /\ call'.type = file[n].type /\ call'.address = file[n].address
           /\ call'.data = file[n].data ]_vars

=============================================================================
