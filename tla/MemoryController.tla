--------------------------- MODULE MemoryController ---------------------------
(***************************************************************************)
(* The six memory controllers of the GX and the address decoders built on  *)
(* them: src/src/core/actions.c configures the controllers, and memory.c   *)
(* decodes an address three times, for a read of the processor             *)
(* (read_nibble_gx), for one that goes through the CRC                     *)
(* (read_nibble_crc_gx) and for a write (write_nibble_gx).  The virtual    *)
(* card behind the ports is kept by core_runtime.c, two nibbles in a byte, *)
(* with a flag that tells the platform to save it.                         *)
(*                                                                         *)
(* Addresses and configurations are those of the program.  What the ROM,   *)
(* the RAM and the device registers hold is left out: a decoder gives the  *)
(* place it selects.                                                       *)
(***************************************************************************)
EXTENDS Integers

CONSTANTS Addrs,        \* bound: the addresses the program uses
          Confs(_, _),  \* bound: values configured, by controller and index
          Nibbles,      \* bound: the values written
          CardBytes     \* bound: the bytes of the card the program writes

ASSUME AddressAssumption ==
    /\ \A addr \in Addrs : addr \in Nat /\ addr < \h100000
    /\ \A b \in CardBytes : b \in Nat /\ b < \h20000
ASSUME NibbleAssumption == Nibbles \subseteq 0 .. 15

MMIO == 0  SysRAM == 1  BANK == 2  PORT1 == 3  PORT2 == 4  SysROM == 5
Controllers == 0 .. 5

VARIABLES mem_cntl,      \* [unconfigured, config] of each controller
          bank_switch,   \* the bank of port 2
          s_card_slot,   \* where the card is: "NONE", "PORT1" or "PORT2"
          port1_is_ram, port2_is_ram,
          s_card_packed, \* the bytes of the card
          s_card_dirty,
          saved          \* what the image of the card on the SD card holds

vars == <<mem_cntl, bank_switch, s_card_slot, port1_is_ram, port2_is_ram,
          s_card_packed, s_card_dirty, saved>>
cardVars == <<s_card_slot, port1_is_ram, port2_is_ram, s_card_packed, s_card_dirty, saved>>

conf_tab_gx == [i \in Controllers |-> IF i = MMIO THEN 1 ELSE IF i = SysROM THEN 0 ELSE 2]
AllUnconfigured ==
    [i \in Controllers |-> [unconfigured |-> conf_tab_gx[i], config |-> <<0, 0>>]]

Base(i) == mem_cntl[i].config[1]
Size(i) == mem_cntl[i].config[2]

BlankCard == [b \in CardBytes |-> 0]

Init ==
    /\ mem_cntl = AllUnconfigured
    /\ bank_switch = 0
    /\ s_card_slot = "NONE" /\ port1_is_ram = FALSE /\ port2_is_ram = FALSE
    /\ s_card_packed = BlankCard /\ s_card_dirty = FALSE
    /\ saved = BlankCard

-----------------------------------------------------------------------------
(* The places a decoder selects                                            *)

Place(dev, off) == [dev |-> dev, off |-> off]
RAM(off) == Place("ram", off)
Device == Place("device", 0)    \* a register of the display, timers, ...
Nothing == Place("nothing", 0)  \* ROM, an empty port, or a constant

port2_mask == \h3ffff
CardMask(off) == off % (port2_mask + 1)
Port1(off) == IF s_card_slot = "PORT1" THEN Place("card", CardMask(off)) ELSE Nothing
Port2(off) == IF s_card_slot = "PORT2"
                THEN Place("card", CardMask(bank_switch * \h40000 + off)) ELSE Nothing

\* The bank an access to the page of the bank switch leaves selected.
BankAfter(addr, page) ==
    IF addr = page THEN 0
    ELSE IF addr \in page + \h40 .. page + \h7f THEN (addr - page - \h40) \div 2
    ELSE bank_switch

Read(place, bank) == [place |-> place, bank |-> bank]

read_nibble_gx(addr) ==
    LET region == addr \div \h10000
        there(place) == Read(place, bank_switch)
        ramAt80000 == Base(SysRAM) = \h80000
        bigRam == ramAt80000 /\ Size(SysRAM) = \hc0000
    IN CASE region = 0 -> there(IF addr \in \h100 .. \h13f /\ Base(MMIO) = \h100 THEN Device ELSE Nothing)
         [] region \in {1, 2, 3, 5, 6} -> there(Nothing)
         [] region = 4 -> there(IF Base(SysRAM) = \h40000 THEN RAM(addr - \h40000) ELSE Nothing)
         [] region = 7 -> IF addr >= \h7f000 /\ Base(BANK) = \h7f000
                            THEN Read(Nothing, BankAfter(addr, \h7f000))
                            ELSE there(Nothing)
         [] region = 8 ->
              there(IF ramAt80000 /\ \/ Size(SysRAM) = \hfc000 /\ addr < \h84000
                                     \/ Size(SysRAM) = \hfe000 /\ addr < \h82000
                                     \/ Size(SysRAM) \in {\hf0000, \hc0000}
                      THEN RAM(addr - \h80000) ELSE Nothing)
         [] region = 9 ->
              IF Base(MMIO) = \h90000 /\ addr < \h91000 THEN Read(Nothing, BankAfter(addr, \h90000))
              ELSE there(IF bigRam THEN RAM(addr - \h80000) ELSE Nothing)
         [] region = 10 ->
              there(IF bigRam THEN RAM(addr - \h80000)
                    ELSE IF Base(PORT1) = \ha0000 THEN Port1(addr - \ha0000) ELSE Nothing)
         [] region = 11 ->
              there(IF bigRam THEN RAM(addr - \h80000)
                    ELSE IF Base(PORT2) = \hb0000 THEN Port2(addr - \hb0000) ELSE Nothing)
         [] region = 12 ->
              there(IF Base(SysRAM) = \hc0000 THEN RAM(addr - \hc0000)
                    ELSE IF Base(PORT1) = \hc0000 THEN Port1(addr - \hc0000)
                    ELSE IF Base(PORT2) = \hc0000 THEN Port2(addr - \hc0000) ELSE Nothing)
         [] region \in 13 .. 15 ->
              there(IF Base(SysRAM) = \hc0000 /\ Size(SysRAM) = \hc0000 THEN RAM(addr - \hc0000)
                    ELSE IF Base(PORT1) = \hc0000 /\ Size(PORT1) = \hc0000 THEN Port1(addr - \hc0000)
                    ELSE IF Base(PORT2) = \hc0000 /\ Size(PORT2) = \hc0000 THEN Port2(addr - \hc0000)
                    ELSE Nothing)

\* The reads of RECALL and of the CRC test decode on their own.
read_nibble_crc_gx(addr) ==
    LET region == addr \div \h10000
        bigRam == Base(SysRAM) = \h80000 /\ Size(SysRAM) = \hc0000
        smallRam == /\ Base(SysRAM) = \h80000
                    /\ \/ Size(SysRAM) = \hfc000 /\ addr < \h84000
                       \/ Size(SysRAM) = \hfe000 /\ addr < \h82000
                       \/ Size(SysRAM) = \hf0000
        place ==
          CASE region = 0 /\ addr \in \h100 .. \h13f /\ Base(MMIO) = \h100 -> Device
            [] region = 4 /\ Base(SysRAM) = \h40000 -> RAM(addr - \h40000)
            [] region = 8 /\ (bigRam \/ smallRam) -> RAM(addr - \h80000)
            [] region = 9 /\ bigRam /\ ~(Base(MMIO) = \h90000 /\ addr < \h91000) -> RAM(addr - \h80000)
            [] region \in {10, 11} /\ bigRam -> RAM(addr - \h80000)
            [] region = 10 /\ ~bigRam /\ Base(PORT1) = \ha0000 -> Port1(addr - \ha0000)
            [] region = 11 /\ ~bigRam /\ Base(PORT2) = \hb0000 -> Port2(addr - \hb0000)
            [] region = 12 ->
                 IF Base(SysRAM) = \hc0000 THEN RAM(addr - \hc0000)
                 ELSE IF Base(PORT1) = \hc0000 THEN Port1(addr - \hc0000)
                 ELSE IF Base(PORT2) = \hc0000 THEN Port2(addr - \hc0000) ELSE Nothing
            [] region \in 13 .. 15 ->
                 IF Base(SysRAM) = \hc0000 /\ Size(SysRAM) = \hc0000 THEN RAM(addr - \hc0000)
                 ELSE IF Base(PORT1) = \hc0000 /\ Size(PORT1) = \hc0000 THEN Port1(addr - \hc0000)
                 ELSE IF Base(PORT2) = \hc0000 /\ Size(PORT2) = \hc0000 THEN Port2(addr - \hc0000)
                 ELSE Nothing
            [] OTHER -> Nothing
        bank == IF region = 7 /\ addr >= \h7f000 /\ Base(BANK) = \h7f000 THEN BankAfter(addr, \h7f000)
                ELSE IF region = 9 /\ Base(MMIO) = \h90000 /\ addr < \h91000 THEN BankAfter(addr, \h90000)
                ELSE bank_switch
    IN Read(place, bank)

\* The writes: those to ROM, to the bank switch or to an empty port are dropped.
write_nibble_gx(addr) ==
    LET region == addr \div \h10000
        ramAt(base) == Base(SysRAM) = base
        whole == Size(SysRAM) = \hc0000
        port1(off) == IF port1_is_ram THEN Port1(off) ELSE Nothing
        port2(off) == IF port2_is_ram THEN Port2(off) ELSE Nothing
        whenRam(condition, off, otherwise) == IF condition THEN RAM(off) ELSE otherwise
    IN CASE region = 0 -> IF addr \in \h100 .. \h13f /\ Base(MMIO) = \h100 THEN Device ELSE Nothing
         [] region \in {1, 2, 3, 5, 6, 7} -> Nothing
         [] region = 4 -> whenRam(ramAt(\h40000), addr - \h40000, Nothing)
         [] region = 8 ->
              whenRam(/\ ramAt(\h80000)
                      /\ \/ whole \/ Size(SysRAM) = \hf0000
                         \/ Size(SysRAM) = \hfc000 /\ addr < \h84000
                         \/ Size(SysRAM) = \hfe000 /\ addr < \h82000,
                      addr - \h80000, Nothing)
         [] region = 9 ->
              IF Base(BANK) = \h90000 /\ addr < \h91000 THEN Nothing
              ELSE whenRam(ramAt(\h80000) /\ whole, addr - \h80000, Nothing)
         [] region = 10 ->
              whenRam(ramAt(\h80000) /\ whole, addr - \h80000,
                      IF Base(PORT1) = \ha0000 THEN port1(addr - \ha0000) ELSE Nothing)
         [] region = 11 ->
              whenRam(ramAt(\h80000) /\ whole, addr - \h80000,
                      IF Base(PORT2) = \hb0000 THEN port2(addr - \hb0000) ELSE Nothing)
         [] region = 12 ->
              whenRam(ramAt(\hc0000), addr - \hc0000,
                      IF Base(PORT1) = \hc0000 THEN port1(addr - \hc0000)
                      ELSE IF Base(PORT2) = \hc0000 THEN port2(addr - \hc0000) ELSE Nothing)
         [] region \in 13 .. 15 ->
              whenRam(ramAt(\hc0000) /\ whole, addr - \hc0000,
                      IF Base(PORT1) = \hc0000 /\ Size(PORT1) = \hc0000 THEN port1(addr - \hc0000)
                      ELSE IF Base(PORT2) = \hc0000 /\ Size(PORT2) = \hc0000 THEN port2(addr - \hc0000)
                      ELSE Nothing)

-----------------------------------------------------------------------------
(* CONFIG, UNCNFG and RESET                                                *)

\* The size of a controller is configured first, then its address.
do_configure ==
    \E i \in Controllers :
        /\ mem_cntl[i].unconfigured # 0
        /\ \A j \in 0 .. i - 1 : mem_cntl[j].unconfigured = 0
        /\ LET n == mem_cntl[i].unconfigured
           IN \E conf \in Confs(i, n) :
                mem_cntl' = [mem_cntl EXCEPT ![i] = [unconfigured |-> n - 1,
                                                     config |-> [@.config EXCEPT ![n] = conf]]]
        /\ UNCHANGED <<bank_switch, cardVars>>

\* The first controller at the address goes back to where RESET puts it.
do_unconfigure ==
    \E i \in Controllers :
        /\ \A j \in 0 .. i - 1 : Base(j) # Base(i)
        /\ mem_cntl' = [mem_cntl EXCEPT ![i] = AllUnconfigured[i]]
        /\ UNCHANGED <<bank_switch, cardVars>>

do_reset == mem_cntl' = AllUnconfigured /\ UNCHANGED <<bank_switch, cardVars>>

-----------------------------------------------------------------------------
(* Reads and writes                                                        *)

\* A read changes the bank, and nothing else.
ReadNibble ==
    \E addr \in Addrs :
        /\ \/ bank_switch' = read_nibble_gx(addr).bank
           \/ bank_switch' = read_nibble_crc_gx(addr).bank
        /\ UNCHANGED <<mem_cntl, cardVars>>

\* The low nibble of a byte has the even address.
PutNibble(byte, off, val) ==
    IF off % 2 = 1 THEN (byte % 16) + 16 * val ELSE 16 * (byte \div 16) + val

\* A change of which only the low nibble is looked at.
told_when_low_changes(byte, next) == s_card_dirty \/ byte % 16 # next % 16

\* A byte that changes is to be saved.
told_of_change(byte, next) == s_card_dirty \/ byte # next

write_card_nibble(off, val) ==
    LET byte == s_card_packed[off \div 2]
        next == PutNibble(byte, off, val)
    IN /\ s_card_packed' = [s_card_packed EXCEPT ![off \div 2] = next]
       /\ s_card_dirty' = told_of_change(byte, next)

WriteNibble ==
    \E addr \in Addrs, val \in Nibbles :
        LET place == write_nibble_gx(addr)
        IN /\ place.dev = "card" => place.off \div 2 \in CardBytes
           /\ IF place.dev = "card" THEN write_card_nibble(place.off, val)
              ELSE UNCHANGED <<s_card_packed, s_card_dirty>>
           /\ UNCHANGED <<mem_cntl, bank_switch, s_card_slot, port1_is_ram, port2_is_ram, saved>>

-----------------------------------------------------------------------------
(* The card slot, and the platform's card image                            *)

\* The slot cleared once more after its port was configured.
configure_then_clear(slot) ==
    /\ s_card_slot' = slot
    /\ port1_is_ram' = FALSE /\ port2_is_ram' = FALSE

\* At most one of the ports has the card, and can be written.
configure_port(slot) ==
    /\ s_card_slot' = slot
    /\ port1_is_ram' = (slot = "PORT1")
    /\ port2_is_ram' = (slot = "PORT2")

\* A new card is blank and not yet saved.
hp48_port_attach_blank ==
    \E slot \in {"PORT1", "PORT2"} :
        /\ configure_port(slot)
        /\ s_card_packed' = BlankCard /\ s_card_dirty' = TRUE
        /\ UNCHANGED <<mem_cntl, bank_switch, saved>>

\* A card whose image is read after it is attached, then marked clean.
LoadImage ==
    \E slot \in {"PORT1", "PORT2"} :
        /\ configure_port(slot)
        /\ s_card_packed' = saved /\ s_card_dirty' = FALSE
        /\ UNCHANGED <<mem_cntl, bank_switch, saved>>

hp48_port2_detach ==
    /\ configure_port("NONE")
    /\ s_card_dirty' = FALSE
    /\ UNCHANGED <<mem_cntl, bank_switch, s_card_packed, saved>>

\* The image is written when the card is dirty, and the card marked clean.
SaveImage ==
    /\ s_card_slot # "NONE" /\ s_card_dirty
    /\ saved' = s_card_packed /\ s_card_dirty' = FALSE
    /\ UNCHANGED <<mem_cntl, bank_switch, s_card_slot, port1_is_ram, port2_is_ram, s_card_packed>>

\* COLD BOOT: the processor starts again and the card stays in its slot.
hp48_core_reset ==
    /\ mem_cntl' = AllUnconfigured
    /\ bank_switch' = 0
    /\ IF s_card_slot # "NONE" THEN configure_port(s_card_slot)
       ELSE UNCHANGED <<s_card_slot, port1_is_ram, port2_is_ram>>
    /\ UNCHANGED <<s_card_packed, s_card_dirty, saved>>

Next ==
    \/ do_configure \/ do_unconfigure \/ do_reset
    \/ ReadNibble \/ WriteNibble
    \/ hp48_port_attach_blank \/ LoadImage \/ hp48_port2_detach \/ SaveImage \/ hp48_core_reset

Spec == Init /\ [][Next]_vars

-----------------------------------------------------------------------------
MemoryTypeOK ==
    /\ mem_cntl \in [Controllers -> [unconfigured : 0 .. 2, config : (0 .. \hfffff) \X (0 .. \hfffff)]]
    /\ bank_switch \in 0 .. 31
    /\ s_card_slot \in {"NONE", "PORT1", "PORT2"}
    /\ s_card_packed \in [CardBytes -> 0 .. 255] /\ saved \in [CardBytes -> 0 .. 255]
    /\ {port1_is_ram, port2_is_ram, s_card_dirty} \subseteq BOOLEAN

\* Writes ask BANK for the bank switch at 90000, reads ask MMIO.
BankSwitchPage(addr) ==
    addr >= \h90000 /\ addr < \h91000 /\ (Base(BANK) = \h90000 \/ Base(MMIO) = \h90000)

(***************************************************************************)
(* However the controllers are configured, an address means one place: the *)
(* two read decoders select the same nibble and leave the same bank, and   *)
(* what is written there is what they read.  The three decoders of         *)
(* memory.c are written out by hand, case by case; they differ only on the *)
(* page of a bank switch at 90000.                                         *)
(***************************************************************************)
DecodersAgree ==
    \A addr \in Addrs :
        /\ read_nibble_gx(addr) = read_nibble_crc_gx(addr)
        /\ ~BankSwitchPage(addr) => write_nibble_gx(addr) = read_nibble_gx(addr).place

(***************************************************************************)
(* A card the platform would not save is the one it has saved: whatever    *)
(* the path of a write (port, bank, even or odd nibble), and whatever      *)
(* attaches, loads, saves, detaches and cold boots came before, a change   *)
(* of a byte has set s_card_dirty.                                         *)
(***************************************************************************)
CleanCardIsSaved ==
    s_card_slot # "NONE" /\ ~s_card_dirty => s_card_packed = saved

=============================================================================
