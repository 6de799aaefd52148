CONSTANTS
  Limit = 65536
  ByteLimit = 256
  VERSION_START = 4
  VERSION_LENGTH = 4
  VIRTUAL_IO_COUNT = 8
  VIRTUAL_IO_START = 10
  VIRTUAL_DATA_START = 16
  VIRTUAL_DATA_LENGTH = 4
  IOBOARD_MAX_IO_PINS = 4
  I2C_BUFFER_SIZE = 24
  EEPROM_SIZE = 32
  EEPROM_FUNC_START = 2
  EEPROM_NAME_START = 8
  IO_BOARD_MAX_IO_PIN_NAME_LENGTH = 4
  EEPROM_DATA_START = 16
  EEPROM_DATA_LENGTH = 4
  EEPROM_SHARED_DATA_START = 24
  EEPROM_SHARED_DATA_LENGTH = 4
  Pins = 2
  Slaves <- OnlyDefault
  Layout <- GatewayLayout
  VirtualDataRange <- IOBoardVirtualData
  Addresses <- AskedAddresses
  Counts <- AskedCounts
  MaxRead = 125
  MaxWrite = 123
  MaxQueries = 1
SPECIFICATION Spec
CHECK_DEADLOCK FALSE
PROPERTIES RefusedHasNoEffect
