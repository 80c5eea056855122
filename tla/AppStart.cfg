SPECIFICATION Spec
CONSTANTS
    Modulus = 256
    BOOT_FLASH_BASE = 32
    BOOT_FLASH_SIZE = 128
    BOOT_SRAM_BASE = 176
    BOOT_SRAM_SIZE = 32
    APP_RELOC_STARTUP_WINDOW = 4
    NoInfo = NoInfo
    Slot <- MCSlot
    Image <- MCImage
    APP_VTOR_RAM_BASE = 192
    StaleWord = {0, 52}
INVARIANT TypeOK
 
INVARIANT HandlersFollowTheImage
INVARIANT DataFollowsTheImage
