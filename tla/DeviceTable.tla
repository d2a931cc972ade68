----------------------------- MODULE DeviceTable ----------------------------
(***************************************************************************)
(* The devices avarice knows (devdescr.cc), row by row, and what is looked *)
(* up in them.  Of the two descriptors, which are sent to the emulators as *)
(* they are, a row keeps what the driver also holds elsewhere: page sizes, *)
(* the sizes of flash and the start of the boot loader.  The other bytes   *)
(* (which I/O registers may be read, instructions of the target) are for   *)
(* the emulator only.                                                      *)
(***************************************************************************)
EXTENDS Integers, Sequences

\* jtag_device_def_type: flash and eeprom are page size and number of pages.
Device(name, device_id, flash, eeprom, vectors_end, device_flags, io_regs, is_xmega, dev1, dev2) ==
  [name |-> name, device_id |-> device_id,
   flash_page_size |-> flash[1], flash_page_count |-> flash[2],
   eeprom_page_size |-> eeprom[1], eeprom_page_count |-> eeprom[2],
   vectors_end |-> vectors_end, device_flags |-> device_flags,
   io_regs |-> io_regs, is_xmega |-> is_xmega, dev_desc1 |-> dev1, dev_desc2 |-> dev2]

\* jtag1_device_desc_type and jtag2_device_desc_type.  Where there is no mkI
\* support the descriptor is all zero, the command byte too.
MkI(flash_pg_sz, eeprom_pg_sz, boot_addr) ==
  [flash_pg_sz |-> flash_pg_sz, eeprom_pg_sz |-> eeprom_pg_sz, boot_addr |-> boot_addr]

NoMkI == MkI(0, 0, 0)

MkII(uiFlashPageSize, ucEepromPageSize, ulBootAddress, ulFlashSize, uiFlashpages) ==
  [uiFlashPageSize |-> uiFlashPageSize, ucEepromPageSize |-> ucEepromPageSize,
   ulBootAddress |-> ulBootAddress, ulFlashSize |-> ulFlashSize,
   uiFlashpages |-> uiFlashpages]

-----------------------------------------------------------------------------
atmega16 ==
  Device("atmega16", \h9403, <<128, 128>>, <<4, 128>>, 84, {}, TRUE, FALSE,
         MkI(128, 0, 8064), MkII(128, 4, 8064, 16384, 128))
atmega162 ==
  Device("atmega162", \h9404, <<128, 128>>, <<4, 128>>, 112, {}, TRUE, FALSE,
         MkI(128, 4, 8064), MkII(128, 4, 8064, 16384, 128))
atmega169 ==
  Device("atmega169", \h9405, <<128, 128>>, <<4, 128>>, 92, {}, TRUE, FALSE,
         MkI(128, 4, 8064), MkII(128, 4, 8064, 16384, 128))
atmega323 ==
  Device("atmega323", \h9501, <<128, 256>>, <<4, 256>>, 80, {}, FALSE, FALSE,
         MkI(128, 0, 16128), MkII(128, 4, 16128, 32768, 256))
atmega32 ==
  Device("atmega32", \h9502, <<128, 256>>, <<4, 256>>, 84, {}, TRUE, FALSE,
         MkI(128, 4, 16128), MkII(128, 4, 16128, 32768, 256))
atmega64 ==
  Device("atmega64", \h9602, <<256, 256>>, <<8, 256>>, 140, {}, TRUE, FALSE,
         MkI(256, 8, 32256), MkII(256, 8, 32256, 65536, 256))
atmega128 ==
  Device("atmega128", \h9702, <<256, 512>>, <<8, 512>>, 140, {"NO_SOFTBP"}, TRUE, FALSE,
         MkI(256, 8, 65024), MkII(256, 8, 65024, 131072, 512))
at90can128 ==
  Device("at90can128", \h9781, <<256, 512>>, <<8, 512>>, 148, {}, TRUE, FALSE,
         MkI(256, 8, 65024), MkII(256, 8, 65024, 131072, 512))
atmega164p ==
  Device("atmega164p", \h940A, <<128, 128>>, <<4, 128>>, 124, {"MKII_ONLY"}, FALSE, FALSE,
         NoMkI, MkII(128, 4, 8064, 16384, 128))
atmega324p ==
  Device("atmega324p", \h9508, <<128, 256>>, <<4, 256>>, 124, {"MKII_ONLY"}, FALSE, FALSE,
         NoMkI, MkII(128, 4, 16128, 32768, 256))
atmega644 ==
  Device("atmega644", \h9609, <<256, 256>>, <<8, 256>>, 112, {"MKII_ONLY"}, FALSE, FALSE,
         NoMkI, MkII(256, 8, 32256, 65536, 256))
atmega325 ==
  Device("atmega325", \h9505, <<128, 256>>, <<4, 256>>, 88, {"MKII_ONLY"}, FALSE, FALSE,
         NoMkI, MkII(128, 4, 16128, 32768, 256))
atmega3250 ==
  Device("atmega3250", \h9506, <<128, 256>>, <<4, 256>>, 100, {"MKII_ONLY"}, FALSE, FALSE,
         NoMkI, MkII(128, 4, 16128, 32768, 256))
atmega645 ==
  Device("atmega645", \h9605, <<256, 256>>, <<8, 256>>, 88, {"MKII_ONLY"}, FALSE, FALSE,
         NoMkI, MkII(256, 8, 32256, 65536, 256))
atmega6450 ==
  Device("atmega6450", \h9606, <<256, 256>>, <<8, 256>>, 100, {"MKII_ONLY"}, FALSE, FALSE,
         NoMkI, MkII(256, 8, 32256, 65536, 256))
atmega329 ==
  Device("atmega329", \h9503, <<128, 256>>, <<4, 256>>, 92, {"MKII_ONLY"}, FALSE, FALSE,
         NoMkI, MkII(128, 4, 16128, 32768, 256))
atmega3290 ==
  Device("atmega3290", \h9504, <<128, 256>>, <<4, 256>>, 100, {"MKII_ONLY"}, FALSE, FALSE,
         NoMkI, MkII(128, 4, 16128, 32768, 256))
atmega649 ==
  Device("atmega649", \h9603, <<256, 256>>, <<8, 256>>, 92, {"MKII_ONLY"}, FALSE, FALSE,
         NoMkI, MkII(256, 8, 32256, 65536, 256))
atmega6490 ==
  Device("atmega6490", \h9604, <<256, 256>>, <<8, 256>>, 100, {"MKII_ONLY"}, FALSE, FALSE,
         NoMkI, MkII(256, 8, 32256, 65536, 256))
atmega640 ==
  Device("atmega640", \h9608, <<256, 256>>, <<8, 512>>, 228, {"MKII_ONLY"}, TRUE, FALSE,
         NoMkI, MkII(256, 8, 32256, 131072, 256))
atmega1280 ==
  Device("atmega1280", \h9703, <<256, 512>>, <<8, 512>>, 228, {"MKII_ONLY"}, TRUE, FALSE,
         NoMkI, MkII(256, 8, 65024, 131072, 512))
atmega1281 ==
  Device("atmega1281", \h9704, <<256, 512>>, <<8, 512>>, 228, {"MKII_ONLY"}, TRUE, FALSE,
         NoMkI, MkII(256, 8, 65024, 131072, 512))
atmega2560 ==
  Device("atmega2560", \h9801, <<256, 1024>>, <<8, 512>>, 228, {"MKII_ONLY"}, TRUE, FALSE,
         NoMkI, MkII(256, 8, 130560, 262144, 1024))
atmega2561 ==
  Device("atmega2561", \h9802, <<256, 1024>>, <<8, 512>>, 228, {"MKII_ONLY"}, TRUE, FALSE,
         NoMkI, MkII(256, 8, 130560, 262144, 1024))
atmega48 ==
  Device("atmega48", \h9205, <<64, 64>>, <<4, 64>>, 52, {"MKII_ONLY"}, FALSE, FALSE,
         NoMkI, MkII(64, 4, 0, 4096, 64))
atmega88 ==
  Device("atmega88", \h930A, <<64, 128>>, <<4, 128>>, 52, {"MKII_ONLY"}, FALSE, FALSE,
         NoMkI, MkII(64, 4, 3968, 8192, 128))
atmega168 ==
  Device("atmega168", \h9406, <<128, 128>>, <<4, 128>>, 104, {"MKII_ONLY"}, FALSE, FALSE,
         NoMkI, MkII(128, 4, 8064, 16384, 128))
attiny13 ==
  Device("attiny13", \h9007, <<32, 32>>, <<1, 64>>, 20, {"MKII_ONLY"}, FALSE, FALSE,
         NoMkI, MkII(32, 1, 0, 1024, 32))
attiny2313 ==
  Device("attiny2313", \h910A, <<32, 64>>, <<4, 32>>, 38, {"MKII_ONLY"}, FALSE, FALSE,
         NoMkI, MkII(32, 4, 0, 2048, 64))
at90pwm2 ==
  Device("at90pwm2", \h9381, <<64, 128>>, <<4, 128>>, 64, {"MKII_ONLY"}, FALSE, FALSE,
         NoMkI, MkII(64, 4, 3968, 8192, 128))
at90pwm3 ==
  Device("at90pwm3", \h9381, <<64, 128>>, <<4, 128>>, 64, {"MKII_ONLY"}, FALSE, FALSE,
         NoMkI, MkII(64, 4, 3968, 8192, 128))
at90pwm2b ==
  Device("at90pwm2b", \h9383, <<64, 128>>, <<4, 128>>, 64, {"MKII_ONLY"}, FALSE, FALSE,
         NoMkI, MkII(64, 4, 3968, 8192, 128))
at90pwm3b ==
  Device("at90pwm3b", \h9383, <<64, 128>>, <<4, 128>>, 64, {"MKII_ONLY"}, FALSE, FALSE,
         NoMkI, MkII(64, 4, 3968, 8192, 128))
attiny24 ==
  Device("attiny24", \h910B, <<32, 64>>, <<4, 32>>, 34, {"MKII_ONLY"}, FALSE, FALSE,
         NoMkI, MkII(32, 4, 0, 2048, 64))
attiny44 ==
  Device("attiny44", \h9207, <<64, 64>>, <<4, 64>>, 34, {"MKII_ONLY"}, FALSE, FALSE,
         NoMkI, MkII(64, 4, 0, 4096, 64))
attiny84 ==
  Device("attiny84", \h930C, <<64, 128>>, <<4, 128>>, 34, {"MKII_ONLY"}, FALSE, FALSE,
         NoMkI, MkII(64, 4, 0, 8192, 128))
attiny25 ==
  Device("attiny25", \h9108, <<32, 64>>, <<4, 32>>, 30, {"MKII_ONLY"}, FALSE, FALSE,
         NoMkI, MkII(32, 4, 0, 2048, 64))
attiny45 ==
  Device("attiny45", \h9206, <<64, 64>>, <<4, 64>>, 30, {"MKII_ONLY"}, FALSE, FALSE,
         NoMkI, MkII(64, 4, 0, 4096, 64))
attiny85 ==
  Device("attiny85", \h930B, <<64, 128>>, <<4, 128>>, 30, {"MKII_ONLY"}, FALSE, FALSE,
         NoMkI, MkII(64, 4, 0, 8192, 128))
attiny261 ==
  Device("attiny261", \h910C, <<32, 64>>, <<4, 32>>, 38, {"MKII_ONLY"}, FALSE, FALSE,
         NoMkI, MkII(32, 4, 0, 2048, 64))
attiny461 ==
  Device("attiny461", \h9208, <<64, 64>>, <<4, 64>>, 38, {"MKII_ONLY"}, FALSE, FALSE,
         NoMkI, MkII(64, 4, 0, 4096, 64))
attiny861 ==
  Device("attiny861", \h930D, <<64, 128>>, <<4, 128>>, 38, {"MKII_ONLY"}, FALSE, FALSE,
         NoMkI, MkII(64, 4, 0, 8192, 128))
atmega32c1 ==
  Device("atmega32c1", \h9586, <<128, 256>>, <<4, 256>>, 124, {"MKII_ONLY"}, FALSE, FALSE,
         NoMkI, MkII(128, 4, 16128, 32768, 256))
atmega32m1 ==
  Device("atmega32m1", \h9584, <<128, 256>>, <<4, 256>>, 124, {"MKII_ONLY"}, FALSE, FALSE,
         NoMkI, MkII(128, 4, 16128, 32768, 256))
at90can32 ==
  Device("at90can32", \h9581, <<256, 128>>, <<8, 128>>, 148, {"MKII_ONLY"}, FALSE, FALSE,
         NoMkI, MkII(256, 8, 15872, 32768, 128))
at90can64 ==
  Device("at90can64", \h9681, <<256, 256>>, <<8, 256>>, 148, {"MKII_ONLY"}, FALSE, FALSE,
         NoMkI, MkII(256, 8, 32256, 65536, 256))
at90pwm216 ==
  Device("at90pwm216", \h9483, <<64, 256>>, <<4, 128>>, 128, {"MKII_ONLY"}, FALSE, FALSE,
         NoMkI, MkII(64, 4, 7936, 16384, 256))
at90pwm316 ==
  Device("at90pwm316", \h9483, <<64, 256>>, <<4, 128>>, 128, {"MKII_ONLY"}, FALSE, FALSE,
         NoMkI, MkII(64, 4, 7936, 16384, 256))
at90usb1287 ==
  Device("at90usb1287", \h9782, <<256, 512>>, <<8, 512>>, 152, {"MKII_ONLY"}, FALSE, FALSE,
         NoMkI, MkII(256, 8, 65024, 131072, 512))
at90usb162 ==
  Device("at90usb162", \h9482, <<128, 128>>, <<4, 128>>, 152, {"MKII_ONLY"}, FALSE, FALSE,
         NoMkI, MkII(128, 4, 7936, 16384, 128))
at90usb646 ==
  Device("at90usb646", \h9682, <<256, 256>>, <<8, 256>>, 152, {"MKII_ONLY"}, FALSE, FALSE,
         NoMkI, MkII(256, 8, 65024, 65536, 256))
at90usb647 ==
  Device("at90usb647", \h9682, <<256, 256>>, <<8, 256>>, 152, {"MKII_ONLY"}, FALSE, FALSE,
         NoMkI, MkII(256, 8, 65024, 65536, 256))
atmega1284p ==
  Device("atmega1284p", \h9705, <<256, 512>>, <<8, 512>>, 140, {"MKII_ONLY"}, FALSE, FALSE,
         NoMkI, MkII(256, 8, 65024, 131072, 512))
atmega165 ==
  Device("atmega165", \h9407, <<128, 128>>, <<4, 128>>, 88, {"MKII_ONLY"}, FALSE, FALSE,
         NoMkI, MkII(128, 4, 8064, 16384, 128))
atmega165p ==
  Device("atmega165p", \h9407, <<128, 128>>, <<4, 128>>, 88, {"MKII_ONLY"}, FALSE, FALSE,
         NoMkI, MkII(128, 4, 8064, 16384, 128))
atmega168p ==
  Device("atmega168p", \h940B, <<128, 128>>, <<4, 128>>, 104, {"MKII_ONLY"}, FALSE, FALSE,
         NoMkI, MkII(128, 4, 8064, 16384, 128))
atmega16hva ==
  Device("atmega16hva", \h940C, <<128, 128>>, <<4, 64>>, 84, {"MKII_ONLY"}, FALSE, FALSE,
         NoMkI, MkII(128, 4, 0, 16384, 128))
atmega3250p ==
  Device("atmega3250p", \h956E, <<128, 256>>, <<4, 256>>, 100, {"MKII_ONLY"}, FALSE, FALSE,
         NoMkI, MkII(128, 4, 16128, 32768, 256))
atmega325p ==
  Device("atmega325p", \h955D, <<128, 256>>, <<4, 256>>, 88, {"MKII_ONLY"}, FALSE, FALSE,
         NoMkI, MkII(128, 4, 16128, 32768, 256))
atmega328p ==
  Device("atmega328p", \h950F, <<128, 256>>, <<4, 256>>, 104, {"MKII_ONLY"}, FALSE, FALSE,
         NoMkI, MkII(128, 4, 16128, 32768, 256))
atmega3290p ==
  Device("atmega3290p", \h950C, <<128, 256>>, <<4, 256>>, 100, {"MKII_ONLY"}, FALSE, FALSE,
         NoMkI, MkII(128, 4, 16128, 32768, 256))
atmega329p ==
  Device("atmega329p", \h9503, <<128, 256>>, <<4, 256>>, 92, {"MKII_ONLY"}, FALSE, FALSE,
         NoMkI, MkII(128, 4, 16128, 32768, 256))
atmega32hvb ==
  Device("atmega32hvb", \h9510, <<128, 256>>, <<4, 256>>, 116, {"MKII_ONLY"}, FALSE, FALSE,
         NoMkI, MkII(128, 4, 16128, 32768, 256))
atmega32u4 ==
  Device("atmega32u4", \h9587, <<128, 256>>, <<4, 256>>, 172, {"MKII_ONLY"}, FALSE, FALSE,
         NoMkI, MkII(128, 4, 16128, 32768, 256))
atmega406 ==
  Device("atmega406", \h9507, <<128, 320>>, <<4, 128>>, 92, {"MKII_ONLY"}, FALSE, FALSE,
         NoMkI, MkII(128, 4, 20224, 40960, 320))
atmega48p ==
  Device("atmega48p", \h920A, <<64, 64>>, <<4, 64>>, 52, {"MKII_ONLY"}, FALSE, FALSE,
         NoMkI, MkII(64, 4, 0, 4096, 64))
atmega644p ==
  Device("atmega644p", \h960A, <<256, 256>>, <<8, 256>>, 124, {"MKII_ONLY"}, FALSE, FALSE,
         NoMkI, MkII(256, 8, 32256, 65536, 256))
atmega88p ==
  Device("atmega88p", \h930F, <<64, 128>>, <<4, 128>>, 52, {"MKII_ONLY"}, FALSE, FALSE,
         NoMkI, MkII(64, 4, 3968, 8192, 128))
attiny167 ==
  Device("attiny167", \h9487, <<128, 128>>, <<4, 128>>, 80, {"MKII_ONLY"}, FALSE, FALSE,
         NoMkI, MkII(128, 4, 0, 16384, 128))
attiny43u ==
  Device("attiny43u", \h920C, <<64, 64>>, <<4, 16>>, 32, {"MKII_ONLY"}, FALSE, FALSE,
         NoMkI, MkII(64, 4, 0, 4096, 64))
attiny48 ==
  Device("attiny48", \h9209, <<64, 64>>, <<4, 16>>, 40, {"MKII_ONLY"}, FALSE, FALSE,
         NoMkI, MkII(64, 4, 0, 4096, 64))
attiny88 ==
  Device("attiny88", \h9311, <<64, 128>>, <<4, 16>>, 40, {"MKII_ONLY"}, FALSE, TRUE,
         NoMkI, MkII(64, 4, 0, 8192, 128))
atxmega128a1revd ==
  Device("atxmega128a1revd", \h9741, <<512, 272>>, <<32, 64>>, 0, {"MKII_ONLY"}, FALSE, FALSE,
         NoMkI, MkII(512, 32, 131072, 139264, 272))
atxmega128a1 ==
  Device("atxmega128a1", \h974C, <<512, 272>>, <<32, 64>>, 0, {"MKII_ONLY"}, FALSE, TRUE,
         NoMkI, MkII(512, 32, 131072, 139264, 272))
atmega128rfa1 ==
  Device("atmega128rfa1", \hA701, <<256, 512>>, <<8, 512>>, 284, {"MKII_ONLY"}, FALSE, FALSE,
         NoMkI, MkII(256, 8, 65024, 131072, 512))

\* In the order of the file.
deviceDefinitions ==
  <<atmega16, atmega162, atmega169, atmega323, atmega32, atmega64, atmega128,
    at90can128, atmega164p, atmega324p, atmega644, atmega325, atmega3250,
    atmega645, atmega6450, atmega329, atmega3290, atmega649, atmega6490,
    atmega640, atmega1280, atmega1281, atmega2560, atmega2561, atmega48,
    atmega88, atmega168, attiny13, attiny2313, at90pwm2, at90pwm3, at90pwm2b,
    at90pwm3b, attiny24, attiny44, attiny84, attiny25, attiny45, attiny85,
    attiny261, attiny461, attiny861, atmega32c1, atmega32m1, at90can32,
    at90can64, at90pwm216, at90pwm316, at90usb1287, at90usb162, at90usb646,
    at90usb647, atmega1284p, atmega165, atmega165p, atmega168p, atmega16hva,
    atmega3250p, atmega325p, atmega328p, atmega3290p, atmega329p, atmega32hvb,
    atmega32u4, atmega406, atmega48p, atmega644p, atmega88p, attiny167,
    attiny43u, attiny48, attiny88, atxmega128a1revd, atxmega128a1,
    atmega128rfa1>>

\* The last record of the file ends every search; it has no name and no flags.
Terminator == Device("", 0, <<0, 0>>, <<0, 0>>, 0, {}, FALSE, FALSE, NoMkI, MkII(0, 0, 0, 0, 0))

Rows == 1 .. Len(deviceDefinitions)

-----------------------------------------------------------------------------
(* The searches of deviceAutoConfig and initJtagBox: the first row, or the *)
(* terminating record.                                                     *)

First(matching) ==
  IF matching = {} THEN Terminator
  ELSE deviceDefinitions[CHOOSE i \in matching : \A j \in matching : i <= j]

ById(device_id) == First({i \in Rows : deviceDefinitions[i].device_id = device_id})
ByName(name) == First({i \in Rows : deviceDefinitions[i].name = name})

Known(d) == d # Terminator
=============================================================================
