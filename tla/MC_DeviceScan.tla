--------------------------- MODULE MC_DeviceScan ----------------------------
(***************************************************************************)
(* DeviceScan with a disk of every kind next to the system disk.           *)
(***************************************************************************)
EXTENDS DeviceScan

CONSTANTS flashVendor, diskVendor

MCVids == {flashVendor, diskVendor}
MCVidScore == [v \in MCVids |-> IF v = flashVendor THEN -5 ELSE 10]

\* Sizes: 0 is below 8 MB, 2 below 8 GB, 4 below 512 GB, 6 above.
Stick ==
  [enumerator |-> "USBSTOR", hwid |-> "disk", policy |-> TRUE,
   driver |-> "usb", idvid |-> TRUE, hub |-> TRUE, vid |-> flashVendor,
   name |-> 0, volumes |-> <<"removable">>, size |-> 4, interfaces |-> 1]
UsbDisk == [Stick EXCEPT !.vid = diskVendor, !.name = 10, !.size = 6,
                         !.volumes = <<"fixed", "fixed">>, !.idvid = FALSE]
BigStick == [Stick EXCEPT !.vid = diskVendor, !.size = 6, !.idvid = FALSE]
FlashDisk == [UsbDisk EXCEPT !.name = -15, !.vid = flashVendor]
UaspDisk == [UsbDisk EXCEPT !.enumerator = "SCSI", !.driver = "uasp",
                            !.policy = FALSE]
UaspStick == [Stick EXCEPT !.enumerator = "SCSI", !.driver = "uasp",
                           !.interfaces = 2]
SystemDisk == [Stick EXCEPT !.enumerator = "SCSI", !.driver = "none",
                            !.policy = FALSE, !.vid = diskVendor,
                            !.hub = FALSE, !.volumes = <<"fixed">>]
HotSwapDisk == [SystemDisk EXCEPT !.policy = TRUE, !.size = 6]
VmDisk == [SystemDisk EXCEPT !.hwid = "vmware"]
VirtualDisk == [SystemDisk EXCEPT !.hwid = "vhd"]
CardReader == [SystemDisk EXCEPT !.hwid = "scsiCard", !.policy = TRUE,
                                 !.volumes = <<"removable", "fixed">>]
SdReader == [CardReader EXCEPT !.enumerator = "CARD", !.hwid = "disk",
                               !.volumes = <<"removable">>]
FixedReader == [SdReader EXCEPT !.policy = FALSE]
UsbReader == [Stick EXCEPT !.enumerator = "USBCARD", !.size = 0]
TinyStick == [Stick EXCEPT !.size = 0]

MCFleets ==
  {<<k, SystemDisk>> : k \in
     {Stick, BigStick, UsbDisk, FlashDisk, UaspDisk, UaspStick, HotSwapDisk,
      VmDisk, VirtualDisk, CardReader, SdReader, FixedReader, UsbReader,
      TinyStick}}
=============================================================================
