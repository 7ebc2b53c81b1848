----------------------------- MODULE MemoryProofs -----------------------------
(***************************************************************************)
(* A clean card is saved, whatever the addresses, the configurations, the  *)
(* values written and the bytes of the card.  The invariant needs only     *)
(* that the card and its image are bytes at the same places: a write that  *)
(* leaves the byte as it was leaves the whole card as it was.  And the     *)
(* three decoders agree, on each of the 2^20 addresses and in whatever     *)
(* configuration, region by region.                                        *)
(***************************************************************************)
EXTENDS MemoryController, TLAPS

CardTyped ==
    /\ s_card_packed \in [CardBytes -> Int]
    /\ saved \in [CardBytes -> Int]
    /\ s_card_dirty \in BOOLEAN

CardInv == CardTyped /\ CleanCardIsSaved

LEMMA CardInitially == Init => CardInv
<1> SUFFICES ASSUME Init PROVE CardInv
  OBVIOUS
<1>1. s_card_packed = BlankCard /\ saved = BlankCard /\ s_card_dirty \in BOOLEAN
  BY DEF Init
<1>2. BlankCard \in [CardBytes -> Int]
  BY DEF BlankCard
<1> QED BY <1>1, <1>2 DEF CardInv, CardTyped, CleanCardIsSaved

\* Only a write touches the card, and only attach, load and save the image.
LEMMA CardStep == NibbleAssumption /\ CardInv /\ [Next]_vars => CardInv'
<1> SUFFICES ASSUME NibbleAssumption, CardInv, [Next]_vars PROVE CardInv'
  OBVIOUS
<1> USE DEF CardInv, CardTyped, CleanCardIsSaved
<1>1. CASE do_configure
  BY <1>1 DEF do_configure, cardVars
<1>2. CASE do_unconfigure
  BY <1>2 DEF do_unconfigure, cardVars
<1>3. CASE do_reset
  BY <1>3 DEF do_reset, cardVars
<1>4. CASE ReadNibble
  BY <1>4 DEF ReadNibble, cardVars
<1>5. CASE WriteNibble
  <2>1. PICK addr \in Addrs, val \in Nibbles :
          LET place == write_nibble_gx(addr)
          IN /\ place.dev = "card" => place.off \div 2 \in CardBytes
             /\ IF place.dev = "card" THEN write_card_nibble(place.off, val)
                ELSE UNCHANGED <<s_card_packed, s_card_dirty>>
             /\ UNCHANGED <<s_card_slot, saved>>
    BY <1>5 DEF WriteNibble
  <2>2. CASE write_nibble_gx(addr).dev # "card"
    BY <2>1, <2>2
  <2>3. CASE write_nibble_gx(addr).dev = "card"
    <3> DEFINE off == write_nibble_gx(addr).off
               b == off \div 2
               byte == s_card_packed[b]
               next == PutNibble(byte, off, val)
    <3>1. b \in CardBytes /\ byte \in Int
      BY <2>1, <2>3
    <3>2. /\ s_card_packed' = [s_card_packed EXCEPT ![b] = next]
          /\ s_card_dirty' = (s_card_dirty \/ byte # next)
          /\ s_card_slot' = s_card_slot /\ saved' = saved
      BY <2>1, <2>3 DEF write_card_nibble, told_of_change
    <3>3. val \in Int
      BY <2>1 DEF NibbleAssumption
    <3>4. next \in Int
      BY <3>1, <3>3 DEF PutNibble
    <3> HIDE DEF off, b, byte, next
    <3>5. CASE byte = next
      <4>1. byte = s_card_packed[b] BY DEF byte
      <4>2. s_card_packed' = s_card_packed
        BY <3>1, <3>2, <3>5, <4>1
      <4>3. s_card_dirty' = s_card_dirty
        BY <3>2, <3>5
      <4> QED BY <3>2, <4>2, <4>3
    <3>6. CASE byte # next
      <4>1. s_card_dirty' = TRUE
        BY <3>2, <3>6
      <4>2. s_card_packed' \in [CardBytes -> Int]
        BY <3>2, <3>4
      <4> QED BY <3>2, <4>1, <4>2
    <3> QED BY <3>5, <3>6
  <2> QED BY <2>2, <2>3
<1>6. CASE hp48_port_attach_blank
  BY <1>6 DEF hp48_port_attach_blank, BlankCard, configure_port
<1>7. CASE LoadImage
  BY <1>7 DEF LoadImage, configure_port
<1>8. CASE hp48_port2_detach
  BY <1>8 DEF hp48_port2_detach, configure_port
<1>9. CASE SaveImage
  BY <1>9 DEF SaveImage
<1>10. CASE hp48_core_reset
  <2>1. /\ UNCHANGED <<s_card_packed, s_card_dirty, saved>>
        /\ s_card_slot' = s_card_slot
    BY <1>10 DEF hp48_core_reset, configure_port
  <2> QED BY <2>1
<1>11. CASE UNCHANGED vars
  BY <1>11 DEF vars
<1> QED
  BY <1>1, <1>2, <1>3, <1>4, <1>5, <1>6, <1>7, <1>8, <1>9, <1>10, <1>11 DEF Next

(***************************************************************************)
(* Whatever writes, banks, ports, attachments, saves and cold boots come   *)
(* in whatever order, a card that is attached and not dirty is the image   *)
(* that was saved: core_runtime.c never loses a change to save.            *)
(***************************************************************************)
THEOREM CleanCardTheorem == Spec => []CleanCardIsSaved
<1>1. CardInv => CleanCardIsSaved
  BY DEF CardInv
<1> QED BY CardInitially, CardStep, NibbleAssumption, <1>1, PTL DEF Spec


(***************************************************************************)
(* The decoders.  A write looks at the flag of its port where a read looks *)
(* at the slot of the card: the two say the same.                          *)
(***************************************************************************)
PortInv ==
    /\ s_card_slot \in {"NONE", "PORT1", "PORT2"}
    /\ port1_is_ram <=> s_card_slot = "PORT1"
    /\ port2_is_ram <=> s_card_slot = "PORT2"

LEMMA PortsFollowTheSlot == Spec => []PortInv
<1>1. Init => PortInv
  BY DEF Init, PortInv
<1>2. PortInv /\ [Next]_vars => PortInv'
  <2> SUFFICES ASSUME PortInv, [Next]_vars PROVE PortInv'
    OBVIOUS
  <2>1. ASSUME NEW slot \in {"NONE", "PORT1", "PORT2"}, configure_port(slot)
        PROVE  PortInv'
    BY <2>1 DEF configure_port, PortInv
  <2>2. CASE UNCHANGED <<s_card_slot, port1_is_ram, port2_is_ram>>
    BY Zenon, <2>2 DEF PortInv
  <2>3. CASE hp48_port_attach_blank \/ LoadImage \/ hp48_port2_detach
    <3>1. PICK slot \in {"NONE", "PORT1", "PORT2"} : configure_port(slot)
      BY <2>3 DEF hp48_port_attach_blank, LoadImage, hp48_port2_detach
    <3> QED
      BY <2>1, <3>1
  <2>4. CASE hp48_core_reset
    BY Zenon, <2>1, <2>2, <2>4 DEF hp48_core_reset, PortInv
  <2>5. CASE do_configure \/ do_unconfigure \/ do_reset \/ ReadNibble
    BY Zenon, <2>2, <2>5 DEF do_configure, do_unconfigure, do_reset, ReadNibble, cardVars
  <2>6. CASE WriteNibble \/ SaveImage \/ UNCHANGED vars
    BY Zenon, <2>2, <2>6 DEF WriteNibble, SaveImage, vars
  <2> QED
    BY Zenon, <2>3, <2>4, <2>5, <2>6 DEF Next
<1> QED
  BY <1>1, <1>2, PTL DEF Spec

\* Each address is in one of the sixteen regions.
LEMMA RegionOfAddress ==
  ASSUME NEW addr \in Nat, addr < \h100000
  PROVE  addr \div \h10000 \in 0 .. 15
BY SMT

\* A read through the CRC decodes as a read of the processor does.
LEMMA ReadsAgree ==
  ASSUME NEW addr \in Nat, addr < \h100000
  PROVE  read_nibble_gx(addr) = read_nibble_crc_gx(addr)
<1> DEFINE region == addr \div \h10000
<1>1. region \in 0 .. 15
  BY SMT, RegionOfAddress
<1>2. CASE region = 0
  BY SMT, <1>2 DEF read_nibble_gx, read_nibble_crc_gx, Read
<1>3. CASE region = 1
  BY SMT, <1>3 DEF read_nibble_gx, read_nibble_crc_gx, Read
<1>4. CASE region = 2
  BY SMT, <1>4 DEF read_nibble_gx, read_nibble_crc_gx, Read
<1>5. CASE region = 3
  BY SMT, <1>5 DEF read_nibble_gx, read_nibble_crc_gx, Read
<1>6. CASE region = 4
  BY SMT, <1>6 DEF read_nibble_gx, read_nibble_crc_gx, Read
<1>7. CASE region = 5
  BY SMT, <1>7 DEF read_nibble_gx, read_nibble_crc_gx, Read
<1>8. CASE region = 6
  BY SMT, <1>8 DEF read_nibble_gx, read_nibble_crc_gx, Read
<1>9. CASE region = 7
  BY SMT, <1>9 DEF read_nibble_gx, read_nibble_crc_gx, Read
<1>10. CASE region = 8
  BY SMT, <1>10 DEF read_nibble_gx, read_nibble_crc_gx, Read
<1>11. CASE region = 9
  BY SMT, <1>11 DEF read_nibble_gx, read_nibble_crc_gx, Read
<1>12. CASE region = 10
  BY SMT, <1>12 DEF read_nibble_gx, read_nibble_crc_gx, Read
<1>13. CASE region = 11
  BY SMT, <1>13 DEF read_nibble_gx, read_nibble_crc_gx, Read
<1>14. CASE region = 12
  BY SMT, <1>14 DEF read_nibble_gx, read_nibble_crc_gx, Read
<1>15. CASE region = 13
  BY SMT, <1>15 DEF read_nibble_gx, read_nibble_crc_gx, Read
<1>16. CASE region = 14
  BY SMT, <1>16 DEF read_nibble_gx, read_nibble_crc_gx, Read
<1>17. CASE region = 15
  BY SMT, <1>17 DEF read_nibble_gx, read_nibble_crc_gx, Read
<1> QED
  BY SMT, <1>1, <1>2, <1>3, <1>4, <1>5, <1>6, <1>7, <1>8, <1>9, <1>10, <1>11, <1>12, <1>13, <1>14, <1>15, <1>16, <1>17

\* Outside the page of the bank switch a write selects the place a read does.
LEMMA WritesAgree ==
  ASSUME PortInv, NEW addr \in Nat, addr < \h100000, ~BankSwitchPage(addr)
  PROVE  write_nibble_gx(addr) = read_nibble_gx(addr).place
<1> DEFINE region == addr \div \h10000
<1>1. region \in 0 .. 15
  BY SMT, RegionOfAddress
<1>2. CASE region = 0
  BY SMT, <1>2 DEF read_nibble_gx, write_nibble_gx, Read, BankSwitchPage, PortInv, Port1, Port2
<1>3. CASE region = 1
  BY SMT, <1>3 DEF read_nibble_gx, write_nibble_gx, Read, BankSwitchPage, PortInv, Port1, Port2
<1>4. CASE region = 2
  BY SMT, <1>4 DEF read_nibble_gx, write_nibble_gx, Read, BankSwitchPage, PortInv, Port1, Port2
<1>5. CASE region = 3
  BY SMT, <1>5 DEF read_nibble_gx, write_nibble_gx, Read, BankSwitchPage, PortInv, Port1, Port2
<1>6. CASE region = 4
  BY SMT, <1>6 DEF read_nibble_gx, write_nibble_gx, Read, BankSwitchPage, PortInv, Port1, Port2
<1>7. CASE region = 5
  BY SMT, <1>7 DEF read_nibble_gx, write_nibble_gx, Read, BankSwitchPage, PortInv, Port1, Port2
<1>8. CASE region = 6
  BY SMT, <1>8 DEF read_nibble_gx, write_nibble_gx, Read, BankSwitchPage, PortInv, Port1, Port2
<1>9. CASE region = 7
  BY SMT, <1>9 DEF read_nibble_gx, write_nibble_gx, Read, BankSwitchPage, PortInv, Port1, Port2
<1>10. CASE region = 8
  BY SMT, <1>10 DEF read_nibble_gx, write_nibble_gx, Read, BankSwitchPage, PortInv, Port1, Port2
<1>11. CASE region = 9
  BY SMT, <1>11 DEF read_nibble_gx, write_nibble_gx, Read, BankSwitchPage, PortInv, Port1, Port2
<1>12. CASE region = 10
  BY SMT, <1>12 DEF read_nibble_gx, write_nibble_gx, Read, BankSwitchPage, PortInv, Port1, Port2
<1>13. CASE region = 11
  BY SMT, <1>13 DEF read_nibble_gx, write_nibble_gx, Read, BankSwitchPage, PortInv, Port1, Port2
<1>14. CASE region = 12
  BY SMT, <1>14 DEF read_nibble_gx, write_nibble_gx, Read, BankSwitchPage, PortInv, Port1, Port2
<1>15. CASE region = 13
  BY SMT, <1>15 DEF read_nibble_gx, write_nibble_gx, Read, BankSwitchPage, PortInv, Port1, Port2
<1>16. CASE region = 14
  BY SMT, <1>16 DEF read_nibble_gx, write_nibble_gx, Read, BankSwitchPage, PortInv, Port1, Port2
<1>17. CASE region = 15
  BY SMT, <1>17 DEF read_nibble_gx, write_nibble_gx, Read, BankSwitchPage, PortInv, Port1, Port2
<1> QED
  BY SMT, <1>1, <1>2, <1>3, <1>4, <1>5, <1>6, <1>7, <1>8, <1>9, <1>10, <1>11, <1>12, <1>13, <1>14, <1>15, <1>16, <1>17

(***************************************************************************)
(* Whatever the guest configures, in whatever order, the three decoders of *)
(* memory.c send an address to one place: a program that checksums, copies *)
(* and rewrites its memory works on the same bytes.                        *)
(***************************************************************************)
THEOREM DecodersAgreeTheorem == Spec => []DecodersAgree
<1>1. PortInv => DecodersAgree
  <2> SUFFICES ASSUME PortInv, NEW addr \in Addrs
               PROVE  /\ read_nibble_gx(addr) = read_nibble_crc_gx(addr)
                      /\ ~BankSwitchPage(addr) => write_nibble_gx(addr) = read_nibble_gx(addr).place
    BY DEF DecodersAgree
  <2>1. addr \in Nat /\ addr < \h100000
    BY SMT, AddressAssumption
  <2> QED
    BY SMT, <2>1, ReadsAgree, WritesAgree
<1> QED
  BY <1>1, PortsFollowTheSlot, PTL

=============================================================================
